---- MODULE Spec2Model ----
(***************************************************************************)
(* Authentication and authorization core of Ontair/admin_panel:            *)
(* JWTService (token issue / parse), AuthService (Login, RefreshToken,     *)
(* ValidateToken), UserService (user-record writers), CookieService and    *)
(* the gin middleware chain RequireAuth -> role gate -> handler.           *)
(*                                                                         *)
(* Time is counted in minutes.  A token is a record of its claims plus    *)
(* the key that signed it (key) and its header algorithm (alg); form       *)
(* tells a three-part JWT from an absent value and from garbage.           *)
(***************************************************************************)
EXTENDS Integers, Sequences, FiniteSets, TLC

VARIABLES
    cfg,      \* config.JWT: SecretKey, RefreshSecret, AccessExpiry, RefreshExpiry
    users,    \* the users table: id -> row
    nextId,   \* the SERIAL sequence of users.id
    now,      \* wall clock, minutes
    ticks,    \* number of clock advances so far (bounds the exploration)
    jar,      \* the client's cookie jar: access_token and refresh_token cookies
    hist,     \* history: the ids for which a deactivation has completed
    db,       \* "up", or "down" while the queries of the repository fail
    calls,    \* the Register calls in flight: caller -> position, request, result
    last      \* the operation performed by the last step, its inputs and its outcome

vars == <<cfg, users, nextId, now, ticks, jar, hist, db, calls, last>>

----------------------------------------------------------------------------
(* Bounds of the exploration *)

MaxTicks == 2

(* Program constants *)

AccessCookieMaxAge == 15
RefreshCookieMaxAge == 10080
LoginExpiresIn == 15
MinUsernameLen == 3
MinPasswordLen == 8

(* Configurations explored: config.JWT is loaded once at start-up *)
Secrets == {"k1", "k2"}
AccessExpiryChoices == {5, 15}
RefreshExpiryChoices == {1440}
ClockSteps == {5, 1440}

----------------------------------------------------------------------------
(* entities *)

RoleAdmin == "admin"
RoleManager == "manager"
RoleUser == "user"
RoleGuest == "guest"
Roles == {RoleAdmin, RoleManager, RoleUser, RoleGuest}

ErrNone == ""
ErrUserNotFound == "user not found"
ErrUserAlreadyExists == "user already exists"
ErrInvalidCredentials == "invalid credentials"
ErrInvalidUsername == "invalid username"
ErrPasswordTooShort == "password too short"
ErrInvalidToken == "invalid token"
ErrUserDeactivated == "user account is deactivated"

\* bcrypt.GenerateFromPassword: the stored value is a hash, never the plain text
HashPassword(password) == <<"bcrypt", password>>

\* User.VerifyPassword: bcrypt.CompareHashAndPassword(u.Password, password) == nil
VerifyPassword(u, password) == u.password = HashPassword(password)

NoLogin == -1

\* the row seedData inserts when no admin exists
SeedAdmin ==
    [username |-> "admin", password |-> HashPassword("admin123"),
     role |-> RoleAdmin, is_active |-> TRUE, last_login |-> NoLogin]

----------------------------------------------------------------------------
(* UserRepository over the users table *)

NoUser ==
    [username |-> "", password |-> <<>>, role |-> "", is_active |-> FALSE,
     last_login |-> NoLogin]

\* GetByID: ErrUserNotFound on pgx.ErrNoRows
GetByID(us, id) ==
    IF id \in DOMAIN us
    THEN [err |-> ErrNone, id |-> id, user |-> us[id]]
    ELSE [err |-> ErrUserNotFound, id |-> 0, user |-> NoUser]

\* the error GetByUsername wraps around a failure of the query
ErrGetByUsernameFailed == "failed to get user by username: connection refused"

\* GetByUsername: username carries a UNIQUE index, so at most one row matches;
\* pgx.ErrNoRows is ErrUserNotFound, every other failure of the query (d is
\* the state of the connection) is returned wrapped
GetByUsername(d, us, username) ==
    IF d # "up"
    THEN [err |-> ErrGetByUsernameFailed, id |-> 0, user |-> NoUser]
    ELSE IF \E id \in DOMAIN us : us[id].username = username
    THEN LET id == CHOOSE i \in DOMAIN us : us[i].username = username
         IN  [err |-> ErrNone, id |-> id, user |-> us[id]]
    ELSE [err |-> ErrUserNotFound, id |-> 0, user |-> NoUser]

\* UpdateLastLogin: UPDATE users SET last_login = NOW() WHERE id = $1
UpdateLastLogin(us, id, t) ==
    IF id \in DOMAIN us THEN [us EXCEPT ![id].last_login = t] ELSE us

----------------------------------------------------------------------------
(* JWTService *)

TypeAccess == "access"
TypeRefresh == "refresh"

NoToken ==
    [form |-> "none", typ |-> "", user_id |-> 0, username |-> "", role |-> "",
     exp |-> 0, nbf |-> 0, key |-> "", alg |-> ""]

\* a string that is not header.payload.signature
Garbage == [NoToken EXCEPT !.form = "garbage"]

\* GenerateAccessToken whose token lives twice the configured time
GenerateAccessTokenLongLived(id, u, c, t) ==
    [form |-> "jwt", typ |-> TypeAccess, user_id |-> id, username |-> u.username,
     role |-> u.role, exp |-> t + c.AccessExpiry + c.AccessExpiry, nbf |-> t,
     key |-> c.SecretKey, alg |-> "HS256"]

\* GenerateAccessToken: claims of the user, exp = now + AccessExpiry minutes,
\* HS256 with config.JWT.SecretKey
GenerateAccessToken(id, u, c, t) ==
    [form |-> "jwt", typ |-> TypeAccess, user_id |-> id, username |-> u.username,
     role |-> u.role, exp |-> t + c.AccessExpiry, nbf |-> t,
     key |-> c.SecretKey, alg |-> "HS256"]

\* GenerateRefreshToken that signs with the access secret
GenerateRefreshTokenWithSecretKey(id, u, c, t) ==
    [form |-> "jwt", typ |-> TypeRefresh, user_id |-> id, username |-> u.username,
     role |-> u.role, exp |-> t + c.RefreshExpiry, nbf |-> t,
     key |-> c.SecretKey, alg |-> "HS256"]

\* GenerateRefreshToken: exp = now + RefreshExpiry minutes, HS256 with RefreshSecret
GenerateRefreshToken(id, u, c, t) ==
    [form |-> "jwt", typ |-> TypeRefresh, user_id |-> id, username |-> u.username,
     role |-> u.role, exp |-> t + c.RefreshExpiry, nbf |-> t,
     key |-> c.RefreshSecret, alg |-> "HS256"]

\* jwt.Parse that does not verify the signature
JwtParseUnverified(tok, secret, t) ==
    IF tok.form # "jwt" THEN "token is malformed"
    ELSE IF t >= tok.exp THEN "token has invalid claims: token is expired"
    ELSE IF t < tok.nbf THEN "token has invalid claims: token is not valid yet"
    ELSE ErrNone

\* jwt.Parse of golang-jwt/jwt/v5 with the key function of parseToken: the
\* key function refuses a non-HMAC method; the signature is verified before
\* the registered claims; every failure is wrapped in the library's error
\* class, so the text of an expiry failure is
\* "token has invalid claims: token is expired".
JwtParse(tok, secret, t) ==
    IF tok.form # "jwt" THEN "token is malformed"
    ELSE IF tok.alg # "HS256" THEN "token is unverifiable: error while executing keyfunc: unexpected signing method"
    ELSE IF tok.key # secret THEN "token signature is invalid: signature is invalid"
    ELSE IF t >= tok.exp THEN "token has invalid claims: token is expired"
    ELSE IF t < tok.nbf THEN "token has invalid claims: token is not valid yet"
    ELSE ErrNone

\* parseToken without the comparison of the type claim
parseTokenWithoutType(tok, secret, expectedType, t) == JwtParse(tok, secret, t)

\* parseToken: jwt.Parse, then the type claim must equal expectedType
parseToken(tok, secret, expectedType, t) ==
    LET err == JwtParse(tok, secret, t)
    IN  IF err # ErrNone THEN err
        ELSE IF tok.typ # expectedType THEN "invalid token type"
        ELSE ErrNone

ParseAccessToken(tok, c, t) == parseToken(tok, c.SecretKey, TypeAccess, t)

ParseRefreshToken(tok, c, t) == parseToken(tok, c.RefreshSecret, TypeRefresh, t)

\* ExtractUserFromToken: every token of this model carries user_id, username
\* and role with the types the assertions expect
ExtractUserFromToken(tok) ==
    [set |-> TRUE, user_id |-> tok.user_id, username |-> tok.username, role |-> tok.role]

\* request context without user_id / username / role / user_info
NoCtx == [set |-> FALSE, user_id |-> 0, username |-> "", role |-> ""]

----------------------------------------------------------------------------
(* AuthService *)

NoAuthResult(err) ==
    [err |-> err, AccessToken |-> NoToken, RefreshToken |-> NoToken,
     id |-> 0, user |-> NoUser, ExpiresIn |-> 0]

\* getUserByUsername: every repository error becomes ErrUserNotFound
getUserByUsername(d, us, username) ==
    LET r == GetByUsername(d, us, username)
    IN  IF r.err # ErrNone THEN [r EXCEPT !.err = ErrUserNotFound] ELSE r

\* Login that reports the password mismatch as an error of its own
LoginPasswordError(d, us, c, t, username, password) ==
    IF username = "" \/ password = "" THEN NoAuthResult(ErrInvalidCredentials)
    ELSE LET r == getUserByUsername(d, us, username)
         IN  IF r.err # ErrNone THEN NoAuthResult(ErrInvalidCredentials)
             ELSE IF ~r.user.is_active THEN NoAuthResult(ErrUserDeactivated)
             ELSE IF ~VerifyPassword(r.user, password)
                  THEN NoAuthResult("hashedPassword is not the hash of the given password")
             ELSE [err |-> ErrNone,
                   AccessToken |-> GenerateAccessToken(r.id, r.user, c, t),
                   RefreshToken |-> GenerateRefreshToken(r.id, r.user, c, t),
                   id |-> r.id,
                   user |-> [r.user EXCEPT !.last_login = t],
                   ExpiresIn |-> LoginExpiresIn]

\* Login that verifies the password before it looks at IsActive
LoginPasswordFirst(d, us, c, t, username, password) ==
    IF username = "" \/ password = "" THEN NoAuthResult(ErrInvalidCredentials)
    ELSE LET r == getUserByUsername(d, us, username)
         IN  IF r.err # ErrNone THEN NoAuthResult(ErrInvalidCredentials)
             ELSE IF ~VerifyPassword(r.user, password)
                  THEN NoAuthResult(ErrInvalidCredentials)
             ELSE IF ~r.user.is_active THEN NoAuthResult(ErrUserDeactivated)
             ELSE [err |-> ErrNone,
                   AccessToken |-> GenerateAccessToken(r.id, r.user, c, t),
                   RefreshToken |-> GenerateRefreshToken(r.id, r.user, c, t),
                   id |-> r.id,
                   user |-> [r.user EXCEPT !.last_login = t],
                   ExpiresIn |-> LoginExpiresIn]

\* AuthService.Login (the last-login write is applied by the calling action)
Login(d, us, c, t, username, password) ==
    IF username = "" \/ password = "" THEN NoAuthResult(ErrInvalidCredentials)
    ELSE LET r == getUserByUsername(d, us, username)
         IN  IF r.err # ErrNone THEN NoAuthResult(ErrInvalidCredentials)
             ELSE IF ~r.user.is_active THEN NoAuthResult(ErrUserDeactivated)
             ELSE IF ~VerifyPassword(r.user, password)
                  THEN NoAuthResult(ErrInvalidCredentials)
             ELSE [err |-> ErrNone,
                   AccessToken |-> GenerateAccessToken(r.id, r.user, c, t),
                   RefreshToken |-> GenerateRefreshToken(r.id, r.user, c, t),
                   id |-> r.id,
                   user |-> [r.user EXCEPT !.last_login = t],
                   ExpiresIn |-> LoginExpiresIn]

\* RefreshToken without the check of IsActive
RefreshTokenNoActiveCheck(us, c, t, tok) ==
    IF ParseRefreshToken(tok, c, t) # ErrNone THEN NoAuthResult(ErrInvalidToken)
    ELSE LET r == GetByID(us, tok.user_id)
         IN  IF r.err # ErrNone THEN NoAuthResult(ErrUserNotFound)
             ELSE [err |-> ErrNone,
                   AccessToken |-> GenerateAccessToken(r.id, r.user, c, t),
                   RefreshToken |-> GenerateRefreshToken(r.id, r.user, c, t),
                   id |-> r.id,
                   user |-> r.user,
                   ExpiresIn |-> LoginExpiresIn]

\* RefreshToken that refuses the token it has just renewed
RefreshTokenSingleUse(us, c, t, tok) ==
    IF ParseRefreshToken(tok, c, t) # ErrNone THEN NoAuthResult(ErrInvalidToken)
    ELSE IF last.op = "RefreshToken" /\ last.err = ErrNone /\ last.tok = tok
         THEN NoAuthResult(ErrInvalidToken)
    ELSE LET r == GetByID(us, tok.user_id)
         IN  IF r.err # ErrNone THEN NoAuthResult(ErrUserNotFound)
             ELSE IF ~r.user.is_active THEN NoAuthResult(ErrUserDeactivated)
             ELSE [err |-> ErrNone,
                   AccessToken |-> GenerateAccessToken(r.id, r.user, c, t),
                   RefreshToken |-> GenerateRefreshToken(r.id, r.user, c, t),
                   id |-> r.id,
                   user |-> r.user,
                   ExpiresIn |-> LoginExpiresIn]

\* AuthService.RefreshToken
RefreshToken(us, c, t, tok) ==
    IF ParseRefreshToken(tok, c, t) # ErrNone THEN NoAuthResult(ErrInvalidToken)
    ELSE LET r == GetByID(us, tok.user_id)
         IN  IF r.err # ErrNone THEN NoAuthResult(ErrUserNotFound)
             ELSE IF ~r.user.is_active THEN NoAuthResult(ErrUserDeactivated)
             ELSE [err |-> ErrNone,
                   AccessToken |-> GenerateAccessToken(r.id, r.user, c, t),
                   RefreshToken |-> GenerateRefreshToken(r.id, r.user, c, t),
                   id |-> r.id,
                   user |-> r.user,
                   ExpiresIn |-> LoginExpiresIn]

\* AuthService.ValidateToken
ValidateToken(us, c, t, tok) ==
    IF ParseAccessToken(tok, c, t) # ErrNone
    THEN [err |-> ErrInvalidToken, id |-> 0, user |-> NoUser]
    ELSE LET r == GetByID(us, tok.user_id)
         IN  IF r.err # ErrNone THEN [err |-> ErrUserNotFound, id |-> 0, user |-> NoUser]
             ELSE IF ~r.user.is_active
                  THEN [err |-> ErrUserDeactivated, id |-> 0, user |-> NoUser]
             ELSE [err |-> ErrNone, id |-> r.id, user |-> r.user]

\* Logout that reports a token that does not parse
LogoutStrict(c, t, tok) ==
    IF ParseAccessToken(tok, c, t) # ErrNone THEN ErrInvalidToken ELSE ErrNone

\* AuthService.Logout: parses the token, reads user_id and returns nil on
\* every path; it calls neither the repository nor any other writer
Logout(c, t, tok) ==
    IF ParseAccessToken(tok, c, t) # ErrNone THEN ErrNone
    ELSE ErrNone

\* the error Create wraps around a failure of the INSERT
ErrCreateFailed ==
    "failed to create user: duplicate key value violates unique constraint"

\* UserRepository.Create: INSERT ... RETURNING id. The id comes from the
\* sequence, which advances also when the INSERT fails; username is UNIQUE
Create(us, nid, user) ==
    IF \E i \in DOMAIN us : us[i].username = user.username
    THEN [err |-> ErrCreateFailed, users |-> us, nextId |-> nid + 1]
    ELSE [err |-> ErrNone,
          users |-> [i \in DOMAIN us \cup {nid} |-> IF i = nid THEN user ELSE us[i]],
          nextId |-> nid + 1]

\* seedData: counts the rows of role admin and with none INSERTs the default
\* admin; a failure of that INSERT is logged as a warning and seedData
\* returns nil all the same
seedData(us, nid) ==
    IF \E i \in DOMAIN us : us[i].role = RoleAdmin
    THEN [users |-> us, nextId |-> nid]
    ELSE [users |-> Create(us, nid, SeedAdmin).users,
          nextId |-> Create(us, nid, SeedAdmin).nextId]

\* a text is the sequence of its pieces: a run of ASCII characters, or one
\* character outside ASCII written as the bytes of its UTF-8 encoding, one
\* character of the model for each byte
EAcute == "e'"

WideChars == {EAcute}

\* the Go string of a text: the bytes of its UTF-8 encoding, so that Len is
\* Go's len
RECURSIVE Utf8(_)
Utf8(text) == IF text = <<>> THEN "" ELSE Head(text) \o Utf8(Tail(text))

\* validateRegistrationRequest: len counts bytes
validateRegistrationRequest(req) ==
    IF req.Username = "" \/ Len(req.Username) < MinUsernameLen THEN ErrInvalidUsername
    ELSE IF Len(req.Password) < MinPasswordLen THEN ErrPasswordTooShort
    ELSE ErrNone

\* getDefaultRole
getDefaultRole(role) ==
    IF role = "" THEN RoleUser
    ELSE IF role \in {RoleAdmin, RoleManager, RoleUser, RoleGuest} THEN role
    ELSE RoleUser

\* User.Validate on a user whose Password is already the bcrypt hash (60 bytes)
Validate(user) == IF user.username = "" THEN ErrInvalidUsername ELSE ErrNone

\* Register up to its read of the store: validation, then the lookup; only a
\* lookup that finds a row stops the registration
RegisterCheck(d, us, req) ==
    IF validateRegistrationRequest(req) # ErrNone
    THEN validateRegistrationRequest(req)
    ELSE IF GetByUsername(d, us, req.Username).err = ErrNone
    THEN ErrUserAlreadyExists
    ELSE ErrNone

\* Register from there on: the user is built active with the hashed password,
\* validated and handed to Create, whose error is returned as it is
RegisterCreate(us, nid, req) ==
    LET user == [username |-> req.Username,
                 password |-> HashPassword(req.Password),
                 role |-> getDefaultRole(req.Role),
                 is_active |-> TRUE,
                 last_login |-> NoLogin]
    IN  IF Validate(user) # ErrNone
        THEN [err |-> Validate(user), users |-> us, nextId |-> nid]
        ELSE Create(us, nid, user)

\* Register that looks the username up before it validates the request
RegisterLookupFirst(d, us, nid, req) ==
    IF GetByUsername(d, us, req.Username).err = ErrNone
    THEN [err |-> ErrUserAlreadyExists, users |-> us, nextId |-> nid]
    ELSE IF validateRegistrationRequest(req) # ErrNone
    THEN [err |-> validateRegistrationRequest(req), users |-> us, nextId |-> nid]
    ELSE RegisterCreate(us, nid, req)

\* AuthService.Register, one call running alone
Register(d, us, nid, req) ==
    IF RegisterCheck(d, us, req) # ErrNone
    THEN [err |-> RegisterCheck(d, us, req), users |-> us, nextId |-> nid]
    ELSE RegisterCreate(us, nid, req)

----------------------------------------------------------------------------
(* CookieService and the browser's cookie jar *)

NoCookie == [value |-> NoToken, expires |-> 0]

EmptyJar == [access |-> NoCookie, refresh |-> NoCookie]

\* SetAuthCookies: access_token with Max-Age 15 minutes, refresh_token with 7 days
SetAuthCookies(accessToken, refreshToken, t) ==
    [access |-> [value |-> accessToken, expires |-> t + AccessCookieMaxAge],
     refresh |-> [value |-> refreshToken, expires |-> t + RefreshCookieMaxAge]]

\* ClearAuthCookies: both cookies are set with Max-Age -1, the browser
\* deletes them
ClearAuthCookies(j) == EmptyJar

\* the value a browser sends for a cookie: nothing once Max-Age has elapsed
Sent(cookie, t) == IF t < cookie.expires THEN cookie.value ELSE NoToken

NoHeader == [kind |-> "none", token |-> NoToken]

Bearer(tok) == [kind |-> "bearer", token |-> tok]

\* an Authorization header that is not "Bearer <token>"
OtherHeader == [kind |-> "other", token |-> NoToken]

\* the request a browser makes from its jar: cookies only
BrowserRequest(j, t) ==
    [hdr |-> NoHeader, access_cookie |-> Sent(j.access, t),
     refresh_cookie |-> Sent(j.refresh, t)]

NoExtract(err) == [err |-> err, token |-> NoToken]

\* GetAccessToken: c.Cookie(access_token)
GetAccessToken(req) ==
    IF req.access_cookie.form = "none"
    THEN NoExtract("access token not found in cookie")
    ELSE [err |-> ErrNone, token |-> req.access_cookie]

\* GetRefreshToken: c.Cookie(refresh_token)
GetRefreshToken(req) ==
    IF req.refresh_cookie.form = "none"
    THEN NoExtract("refresh token not found in cookie")
    ELSE [err |-> ErrNone, token |-> req.refresh_cookie]

\* GetTokenFromRequest: the access cookie first, then the Authorization header
GetTokenFromRequest(req) ==
    IF GetAccessToken(req).err = ErrNone THEN GetAccessToken(req)
    ELSE IF req.hdr.kind = "none" THEN NoExtract("no token found in request")
    ELSE IF req.hdr.kind = "bearer" /\ req.hdr.token.form # "none"
         THEN [err |-> ErrNone, token |-> req.hdr.token]
    ELSE NoExtract("invalid authorization header format")

----------------------------------------------------------------------------
(* AuthMiddleware *)

\* extractToken that looks at the cookie before the Authorization header
extractTokenCookieFirst(req) ==
    LET r == GetTokenFromRequest(req)
    IN  IF r.err = ErrNone /\ r.token.form # "none" THEN r
        ELSE IF req.hdr.kind = "bearer" THEN [err |-> ErrNone, token |-> req.hdr.token]
        ELSE NoExtract("no token found")

\* extractToken: a "Bearer <token>" Authorization header first, then the cookie
extractToken(req) ==
    IF req.hdr.kind = "bearer" THEN [err |-> ErrNone, token |-> req.hdr.token]
    ELSE LET r == GetTokenFromRequest(req)
         IN  IF r.err = ErrNone /\ r.token.form # "none" THEN r
             ELSE NoExtract("no token found")

\* isTokenExpiredError that takes every error for an expiry
isTokenExpiredErrorAny(err) == err # ErrNone

\* isTokenExpiredError: the whole error text is compared with two literals
isTokenExpiredError(err) ==
    err # ErrNone /\ (err = "token is expired" \/ err = "Token is expired")

\* cookies written on the response
NoSetCookies == [done |-> FALSE, access |-> NoToken, refresh |-> NoToken]

\* attemptTokenRefresh: refresh cookie -> AuthService.RefreshToken ->
\* SetAuthCookies -> parse the new access token -> identity into the context
attemptTokenRefresh(req, us, c, t) ==
    LET g == GetRefreshToken(req)
    IN  IF g.err # ErrNone
        THEN [ok |-> FALSE, ctx |-> NoCtx, setc |-> NoSetCookies, called |-> FALSE]
        ELSE LET r == RefreshToken(us, c, t, g.token)
                 setc == [done |-> TRUE, access |-> r.AccessToken,
                          refresh |-> r.RefreshToken]
             IN  IF r.err # ErrNone
                 THEN [ok |-> FALSE, ctx |-> NoCtx, setc |-> NoSetCookies,
                       called |-> TRUE]
                 ELSE IF ParseAccessToken(r.AccessToken, c, t) # ErrNone
                 THEN [ok |-> FALSE, ctx |-> NoCtx, setc |-> setc, called |-> TRUE]
                 ELSE [ok |-> TRUE, ctx |-> ExtractUserFromToken(r.AccessToken),
                       setc |-> setc, called |-> TRUE]

Unauthorized(setc, called) ==
    [next |-> FALSE, status |-> 401, ctx |-> NoCtx, setc |-> setc, called |-> called]

\* RequireAuth that answers 401 on a token that does not parse but goes on
\* to the next handler
RequireAuthFallThrough(req, us, c, t) ==
    LET ex == extractToken(req)
    IN  IF ex.err # ErrNone THEN Unauthorized(NoSetCookies, FALSE)
        ELSE IF ParseAccessToken(ex.token, c, t) # ErrNone
             THEN [next |-> TRUE, status |-> 401, ctx |-> NoCtx,
                   setc |-> NoSetCookies, called |-> FALSE]
        ELSE [next |-> TRUE, status |-> 0, ctx |-> ExtractUserFromToken(ex.token),
              setc |-> NoSetCookies, called |-> FALSE]

\* RequireAuth: next = c.Next() was called, otherwise the request was aborted
RequireAuth(req, us, c, t) ==
    LET ex == extractToken(req)
    IN  IF ex.err # ErrNone THEN Unauthorized(NoSetCookies, FALSE)
        ELSE LET perr == ParseAccessToken(ex.token, c, t)
             IN  IF perr # ErrNone
                 THEN IF isTokenExpiredError(perr)
                      THEN LET a == attemptTokenRefresh(req, us, c, t)
                           IN  IF a.ok
                               THEN [next |-> TRUE, status |-> 0, ctx |-> a.ctx,
                                     setc |-> a.setc, called |-> TRUE]
                               ELSE Unauthorized(a.setc, a.called)
                      ELSE Unauthorized(NoSetCookies, FALSE)
                 ELSE [next |-> TRUE, status |-> 0,
                       ctx |-> ExtractUserFromToken(ex.token),
                       setc |-> NoSetCookies, called |-> FALSE]

\* RequireRole that lets an admin through whatever role is required
RequireRoleOrAdmin(role, ctx) ==
    IF ~ctx.set THEN [next |-> FALSE, status |-> 401]
    ELSE IF ctx.role # role /\ ctx.role # RoleAdmin THEN [next |-> FALSE, status |-> 403]
    ELSE [next |-> TRUE, status |-> 0]

\* RequireRole: 401 without a role in the context, 403 unless the role is `role`
RequireRole(role, ctx) ==
    IF ~ctx.set THEN [next |-> FALSE, status |-> 401]
    ELSE IF ctx.role # role THEN [next |-> FALSE, status |-> 403]
    ELSE [next |-> TRUE, status |-> 0]

RequireAdmin(ctx) == RequireRole(RoleAdmin, ctx)

RequireManagerOrHigher(ctx) ==
    IF ~ctx.set THEN [next |-> FALSE, status |-> 401]
    ELSE IF ctx.role # RoleAdmin /\ ctx.role # RoleManager
         THEN [next |-> FALSE, status |-> 403]
    ELSE [next |-> TRUE, status |-> 0]

----------------------------------------------------------------------------
(* setupRouter: the route groups and their middleware chains *)

Groups == {"protected", "manager", "admin"}

\* the groups without their role middleware: RequireAuth alone
GateWithoutRoles(group, ctx) == [next |-> TRUE, status |-> 0]

Gate(group, ctx) ==
    CASE group = "manager" -> RequireManagerOrHigher(ctx)
      [] group = "admin" -> RequireAdmin(ctx)
      [] OTHER -> [next |-> TRUE, status |-> 0]

\* Serve whose role gate looks the user's role up in the store
ServeStoredRole(group, req, us, c, t) ==
    LET a == RequireAuth(req, us, c, t)
        stored == IF a.ctx.user_id \in DOMAIN us
                  THEN [a.ctx EXCEPT !.role = us[a.ctx.user_id].role] ELSE NoCtx
    IN  IF ~a.next
        THEN [status |-> a.status, handler |-> FALSE, ctx |-> a.ctx,
              setc |-> a.setc, called |-> a.called]
        ELSE LET g == Gate(group, stored)
             IN  IF ~g.next
                 THEN [status |-> g.status, handler |-> FALSE, ctx |-> a.ctx,
                       setc |-> a.setc, called |-> a.called]
                 ELSE [status |-> 200, handler |-> TRUE, ctx |-> a.ctx,
                       setc |-> a.setc, called |-> a.called]

\* one request through RequireAuth, the group's role gate and the handler
Serve(group, req, us, c, t) ==
    LET a == RequireAuth(req, us, c, t)
    IN  IF ~a.next
        THEN [status |-> a.status, handler |-> FALSE, ctx |-> a.ctx,
              setc |-> a.setc, called |-> a.called]
        ELSE LET g == Gate(group, a.ctx)
             IN  IF ~g.next
                 THEN [status |-> g.status, handler |-> FALSE, ctx |-> a.ctx,
                       setc |-> a.setc, called |-> a.called]
                 ELSE [status |-> 200, handler |-> TRUE, ctx |-> a.ctx,
                       setc |-> a.setc, called |-> a.called]

\* one request through RequireAuth and RequireRole(role)
ServeRequireRole(role, req, us, c, t) ==
    LET a == RequireAuth(req, us, c, t)
    IN  IF ~a.next
        THEN [status |-> a.status, handler |-> FALSE, ctx |-> a.ctx,
              setc |-> a.setc, called |-> a.called]
        ELSE LET g == RequireRole(role, a.ctx)
             IN  IF ~g.next
                 THEN [status |-> g.status, handler |-> FALSE, ctx |-> a.ctx,
                       setc |-> a.setc, called |-> a.called]
                 ELSE [status |-> 200, handler |-> TRUE, ctx |-> a.ctx,
                       setc |-> a.setc, called |-> a.called]

\* the handlers registered in each group: a request that passed the group's
\* middleware reaches the handler of its method and path
Routes ==
    {<<"protected", "GetProfile">>, <<"protected", "GetCurrentUser">>,
     <<"protected", "ChangePassword">>,
     <<"manager", "Register">>, <<"manager", "ListUsers">>,
     <<"manager", "CreateUser">>, <<"manager", "GetUser">>,
     <<"manager", "UpdateUser">>,
     <<"admin", "ListAllUsers">>, <<"admin", "DeleteUser">>,
     <<"admin", "ActivateUser">>, <<"admin", "DeactivateUser">>}

\* the handlers of a group
Handlers(group) == {r[2] : r \in {x \in Routes : x[1] = group}}

----------------------------------------------------------------------------
(* UserService *)

\* getValidRole: an unknown role becomes RoleUser
getValidRole(role) == IF role \in Roles THEN role ELSE RoleUser

\* validateCreateUserRequest
validateCreateUserRequest(req) ==
    IF req.Username = "" \/ Len(req.Username) < MinUsernameLen THEN ErrInvalidUsername
    ELSE IF req.Password = "" \/ Len(req.Password) < MinPasswordLen
         THEN ErrPasswordTooShort
    ELSE ErrNone

\* UserService.CreateUser: the new table and the error; Create takes the next id
CreateUser(us, nid, req) ==
    IF validateCreateUserRequest(req) # ErrNone
    THEN [err |-> validateCreateUserRequest(req), users |-> us]
    ELSE IF GetByUsername("up", us, req.Username).err = ErrNone
    THEN [err |-> ErrUserAlreadyExists, users |-> us]
    ELSE [err |-> ErrNone,
          users |-> [i \in DOMAIN us \cup {nid} |->
                       IF i = nid
                       THEN [username |-> req.Username,
                             password |-> HashPassword(req.Password),
                             role |-> getValidRole(req.Role),
                             is_active |-> req.IsActive,
                             last_login |-> NoLogin]
                       ELSE us[i]]]

\* an optional (pointer) field of UpdateUserRequest
Nil(v) == [set |-> FALSE, v |-> v]

Some(v) == [set |-> TRUE, v |-> v]

\* UserService.UpdateUser with Username, FirstName and LastName nil
UpdateUser(us, id, req) ==
    LET r == GetByID(us, id)
    IN  IF r.err # ErrNone THEN [err |-> ErrUserNotFound, users |-> us]
        ELSE [err |-> ErrNone,
              users |-> [us EXCEPT ![id] =
                  [@ EXCEPT !.role = IF req.Role.set THEN getValidRole(req.Role.v) ELSE @,
                            !.is_active = IF req.IsActive.set THEN req.IsActive.v ELSE @]]]

\* toggleUserActiveStatus: read the row, set the flag, write the row
toggleUserActiveStatus(us, id, isActive) ==
    LET r == GetByID(us, id)
    IN  IF r.err # ErrNone THEN [err |-> ErrUserNotFound, users |-> us]
        ELSE [err |-> ErrNone, users |-> [us EXCEPT ![id].is_active = isActive]]

\* UserService.DeleteUser
DeleteUser(us, id) ==
    IF GetByID(us, id).err # ErrNone THEN [err |-> ErrUserNotFound, users |-> us]
    ELSE [err |-> ErrNone, users |-> [i \in DOMAIN us \ {id} |-> us[i]]]

\* the ids of S, the latest created first (ORDER BY created_at DESC)
RECURSIVE Descending(_)
Descending(S) ==
    IF S = {} THEN <<>>
    ELSE LET m == CHOOSE x \in S : \A y \in S : y <= x
         IN  <<m>> \o Descending(S \ {m})

\* a list of users whatever their role
GetAnyRole(us, roles) == Descending(DOMAIN us)

\* UserRepository.GetByRoles: SELECT ... WHERE role IN (roles); GetByRole is
\* the same query with one role
GetByRoles(us, roles) ==
    IF roles = {} THEN <<>>
    ELSE Descending({i \in DOMAIN us : us[i].role \in roles})

\* the letters of the usernames of the model, for the text search
Spell(username) ==
    CASE username = "admin" -> <<"a", "d", "m", "i", "n">>
      [] username = "Bob" -> <<"B", "o", "b">>
      [] username = "eve" -> <<"e", "v", "e">>
      [] username = "bea" -> <<"b", "e", "a">>
      [] OTHER -> <<>>

\* strings.ToLower on a text
ToLower(text) ==
    [k \in 1..Len(text) |->
        CASE text[k] = "B" -> "b" [] text[k] = "E" -> "e" [] OTHER -> text[k]]

\* strings.Contains
Contains(text, sub) ==
    \E k \in 0..(Len(text) - Len(sub)) : SubSeq(text, k + 1, k + Len(sub)) = sub

\* filterUsersByText on a list of ids; FirstName and LastName are empty
filterUsersByText(us, ids, search) ==
    IF search = <<>> THEN ids
    ELSE SelectSeq(ids, LAMBDA i :
            \/ Contains(ToLower(Spell(us[i].username)), ToLower(search))
            \/ Contains(<<>>, ToLower(search)))

\* filterUsersByActiveStatus
filterUsersByActiveStatus(us, ids, isActive) ==
    SelectSeq(ids, LAMBDA i : us[i].is_active = isActive)

\* paginateUsers: users[offset:end]
paginateUsers(ids, limit, offset) ==
    IF offset >= Len(ids) THEN <<>>
    ELSE SubSeq(ids, offset + 1,
                IF offset + limit > Len(ids) THEN Len(ids) ELSE offset + limit)

\* UserService.ListUsersForManager: the users are given by their ids
ListUsersForManager(us, req) ==
    LET limit == IF req.Limit <= 0 \/ req.Limit > 100 THEN 20 ELSE req.Limit
        offset == IF req.Offset < 0 THEN 0 ELSE req.Offset
        found == IF req.Role = "" THEN GetByRoles(us, {RoleUser, RoleGuest})
                 ELSE GetByRoles(us, {req.Role})
        searched == IF req.Search # <<>> THEN filterUsersByText(us, found, req.Search)
                    ELSE found
        page == paginateUsers(searched, limit, offset)
    IN  IF req.Role # "" /\ req.Role # RoleUser /\ req.Role # RoleGuest
        THEN [Users |-> <<>>, Total |-> 0, Limit |-> limit, Offset |-> offset]
        ELSE [Users |-> IF req.IsActive.set
                        THEN filterUsersByActiveStatus(us, page, req.IsActive.v)
                        ELSE page,
              Total |-> Len(searched), Limit |-> limit, Offset |-> offset]

\* UserRepository.Update: UPDATE users SET every column WHERE id; no row
\* affected is ErrUserNotFound
Update(us, id, user) ==
    IF id \in DOMAIN us
    THEN [err |-> ErrNone, users |-> [us EXCEPT ![id] = user]]
    ELSE [err |-> ErrUserNotFound, users |-> us]

\* ChangePassword up to its write: the record is read, the current password
\* verified, the new one measured (len counts bytes) and hashed into the record
ChangePasswordRead(us, id, req) ==
    LET r == GetByID(us, id)
    IN  IF r.err # ErrNone THEN [err |-> ErrUserNotFound, user |-> NoUser]
        ELSE IF ~VerifyPassword(r.user, req.CurrentPassword)
        THEN [err |-> ErrInvalidCredentials, user |-> r.user]
        ELSE IF Len(req.NewPassword) < MinPasswordLen
        THEN [err |-> ErrPasswordTooShort, user |-> r.user]
        ELSE [err |-> ErrNone,
              user |-> [r.user EXCEPT !.password = HashPassword(req.NewPassword)]]

\* ChangePassword that measures the new password before it verifies the
\* current one
ChangePasswordLengthFirst(us, id, req) ==
    IF GetByID(us, id).err # ErrNone THEN [err |-> ErrUserNotFound, users |-> us]
    ELSE IF Len(req.NewPassword) < MinPasswordLen
    THEN [err |-> ErrPasswordTooShort, users |-> us]
    ELSE IF ~VerifyPassword(GetByID(us, id).user, req.CurrentPassword)
    THEN [err |-> ErrInvalidCredentials, users |-> us]
    ELSE Update(us, id, [GetByID(us, id).user EXCEPT
                            !.password = HashPassword(req.NewPassword)])

\* UserService.ChangePassword, one call running alone
ChangePassword(us, id, req) ==
    IF ChangePasswordRead(us, id, req).err # ErrNone
    THEN [err |-> ChangePasswordRead(us, id, req).err, users |-> us]
    ELSE Update(us, id, ChangePasswordRead(us, id, req).user)

\* UpdateUser up to its write: the record is read and the fields of the
\* request are set in it
UpdateUserRead(us, id, req) ==
    LET r == GetByID(us, id)
    IN  IF r.err # ErrNone THEN [err |-> ErrUserNotFound, user |-> NoUser]
        ELSE [err |-> ErrNone,
              user |-> [r.user EXCEPT
                          !.role = IF req.Role.set THEN getValidRole(req.Role.v) ELSE @,
                          !.is_active = IF req.IsActive.set THEN req.IsActive.v ELSE @]]

\* toggleUserActiveStatus up to its write
toggleUserActiveStatusRead(us, id, isActive) ==
    LET r == GetByID(us, id)
    IN  IF r.err # ErrNone THEN [err |-> ErrUserNotFound, user |-> NoUser]
        ELSE [err |-> ErrNone, user |-> [r.user EXCEPT !.is_active = isActive]]

----------------------------------------------------------------------------
(* AuthHandler: what the caller of POST /auth/login sees for each service error *)

LoginResponse(err) ==
    CASE err = ErrNone -> [status |-> 200, message |-> "Login successful"]
      [] err = ErrInvalidCredentials -> [status |-> 401, message |-> "Invalid credentials"]
      [] err = ErrUserNotFound -> [status |-> 401, message |-> "Invalid credentials"]
      [] err = ErrUserDeactivated -> [status |-> 403, message |-> "Account is deactivated"]
      [] OTHER -> [status |-> 500, message |-> "Login failed"]

\* AuthHandler.Login as seen by the caller: status and message
HttpLoginResponse(d, us, c, t, username, password) ==
    LoginResponse(Login(d, us, c, t, username, password).err)

\* AuthHandler.Logout: without a token in the request (access cookie, then
\* Authorization header) it answers 200 and returns; otherwise it calls
\* AuthService.Logout and clears the cookies unless that fails
LogoutHandler(req, c, t) ==
    LET g == GetTokenFromRequest(req)
    IN  IF g.err # ErrNone
        THEN [status |-> 200, message |-> "Already logged out", clear |-> FALSE,
              tok |-> NoToken]
        ELSE IF Logout(c, t, g.token) # ErrNone
        THEN [status |-> 500, message |-> "Logout failed", clear |-> FALSE,
              tok |-> g.token]
        ELSE [status |-> 200, message |-> "Logged out successfully", clear |-> TRUE,
              tok |-> g.token]

\* AuthHandler.RefreshToken: status for each service error
RefreshStatus(err) ==
    CASE err = ErrNone -> 200
      [] err = ErrInvalidToken -> 401
      [] err = ErrUserNotFound -> 401
      [] err = ErrUserDeactivated -> 403
      [] OTHER -> 500

----------------------------------------------------------------------------
(* State *)

NoRequest == [hdr |-> NoHeader, access_cookie |-> NoToken, refresh_cookie |-> NoToken]

\* what the last step did: the operation, its inputs and what its caller saw
NoLast ==
    [op |-> "none", status |-> 0, err |-> ErrNone, message |-> "", group |-> "",
     role |-> "", req |-> NoRequest, tok |-> NoToken, username |-> "",
     password |-> "", id |-> 0, ctx |-> NoCtx, setc |-> NoSetCookies,
     handler |-> FALSE, called |-> FALSE, access |-> NoToken, refresh |-> NoToken,
     expires_in |-> 0, again |-> FALSE, browser |-> FALSE,
     text |-> [username |-> <<>>, password |-> <<>>], before |-> <<>>,
     list |-> [Limit |-> 0, Offset |-> 0, Role |-> "",
               IsActive |-> [set |-> FALSE, v |-> FALSE], Search |-> <<>>],
     listed |-> [Users |-> <<>>, Total |-> 0, Limit |-> 0, Offset |-> 0]]

\* the history kept for the properties: deactivated, the ids for which a
\* deactivation has completed; since, for each id that a deactivation made
\* inactive and that has stayed so, the time of that deactivation
NoHist == [deactivated |-> {}, since |-> [i \in {} |-> 0]]

\* a deactivation of id completed at time t
Deactivated(h, id, t) ==
    [deactivated |-> h.deactivated \cup {id},
     since |-> IF id \in DOMAIN h.since THEN h.since
               ELSE [i \in DOMAIN h.since \cup {id} |->
                       IF i = id THEN t ELSE h.since[i]]]

\* id was activated again, or its row is gone
Reactivated(h, id) ==
    [deactivated |-> h.deactivated,
     since |-> [i \in DOMAIN h.since \ {id} |-> h.since[i]]]

\* the callers of concurrent calls and requests
Callers == {"c1", "c2"}

\* a caller that is not in a call: pc is its position, username and password
\* the request of a Register call, req the HTTP request of a request through
\* RequireAuth, err the error of the parse or of the call, status and ctx
\* what RequireAuth answered, renewals the calls of attemptTokenRefresh, op
\* and id the writer and its user, row the user record the writer holds
NoCall ==
    [pc |-> "idle", username |-> "", password |-> "", err |-> ErrNone,
     req |-> NoRequest, status |-> 0, ctx |-> NoCtx, renewals |-> 0,
     op |-> "", id |-> 0, row |-> NoUser]

NoCalls == [p \in Callers |-> NoCall]

\* configurations with two different secrets
Configs ==
    [SecretKey : {"k1"}, RefreshSecret : {"k2"},
     AccessExpiry : AccessExpiryChoices, RefreshExpiry : RefreshExpiryChoices]

\* configurations whose refresh secret may equal the access secret
AllConfigs ==
    [SecretKey : {"k1"}, RefreshSecret : Secrets,
     AccessExpiry : AccessExpiryChoices, RefreshExpiry : RefreshExpiryChoices]

\* the store after seedData: the admin row
Init ==
    /\ cfg \in Configs
    /\ users = [i \in {1} |-> SeedAdmin]
    /\ nextId = 2
    /\ now = 0
    /\ ticks = 0
    /\ jar = EmptyJar
    /\ hist = NoHist
    /\ db = "up"
    /\ calls = NoCalls
    /\ last = NoLast

\* any configuration, and the admin row with any role, active or not
InitJwt ==
    /\ cfg \in AllConfigs
    /\ users \in {[i \in {1} |-> [SeedAdmin EXCEPT !.role = r, !.is_active = a]] :
                    r \in {RoleAdmin, RoleUser}, a \in BOOLEAN}
    /\ nextId = 2
    /\ now = 0
    /\ ticks = 0
    /\ jar = EmptyJar
    /\ hist = NoHist
    /\ db = "up"
    /\ calls = NoCalls
    /\ last = NoLast

----------------------------------------------------------------------------
(* Inputs *)

\* the requests of ListUsersForManager: every role filter, a search text in
\* upper case, the is_active filter, limits and offsets in and out of range
ListRequests ==
    {[Limit |-> lo[1], Offset |-> lo[2], Role |-> r, IsActive |-> a, Search |-> q] :
        lo \in {<<0, 0>>, <<1, 1>>, <<101, -1>>},
        r \in {"", RoleUser, RoleGuest, RoleAdmin},
        a \in {Nil(FALSE), Some(TRUE), Some(FALSE)},
        q \in {<<>>, <<"B">>}}

Usernames == {"admin", "nobody"}
Passwords == {"admin123", "wrongpass", ""}
\* ids the service is called with (id 2 has no row)
Ids == {1, 2}

\* tokens the client holds: it may present the value of a cookie at any
\* time, also after the cookie's Max-Age
HeldAccess == {jar.access.value} \ {NoToken}
HeldRefresh == {jar.refresh.value} \ {NoToken}

\* tokens the service calls are tried with
TokenCandidates == HeldAccess \cup HeldRefresh \cup {Garbage}

\* requests of a client that is not the browser, each with the group it goes to
CraftedRequests ==
    {<<g, [hdr |-> Bearer(a), access_cookie |-> NoToken, refresh_cookie |-> r]>> :
        g \in Groups, a \in HeldAccess, r \in {NoToken} \cup HeldRefresh}
    \cup {<<"protected", [hdr |-> Bearer(a), access_cookie |-> NoToken,
                          refresh_cookie |-> r]>> :
        a \in HeldAccess \cup HeldRefresh, r \in {Garbage}}
    \cup {<<"protected", [hdr |-> h, access_cookie |-> a, refresh_cookie |-> NoToken]>> :
        h \in {NoHeader, OtherHeader, Bearer(Garbage)},
        a \in {NoToken} \cup HeldAccess}
    \cup {<<"protected", [hdr |-> Bearer(a), access_cookie |-> Garbage,
                          refresh_cookie |-> NoToken]>> : a \in HeldAccess}

\* signing keys of tokens the server did not make: a stranger's key and each
\* of the server's two secrets
SigningKeys == {"evil"} \cup Secrets

\* tokens signed with any of SigningKeys, carrying any claims
SignedTokens ==
    {[form |-> "jwt", typ |-> ty, user_id |-> 1, username |-> "admin", role |-> ro,
      exp |-> e, nbf |-> 0, key |-> k, alg |-> "HS256"] :
        ty \in {TypeAccess, TypeRefresh}, ro \in {RoleAdmin, RoleGuest},
        e \in {now, now + 5}, k \in SigningKeys}

\* an unsigned token
AlgNone ==
    [form |-> "jwt", typ |-> TypeAccess, user_id |-> 1, username |-> "admin",
     role |-> RoleAdmin, exp |-> now + 5, nbf |-> 0, key |-> "", alg |-> "none"]

\* tokens the server makes for the stored user, at time 0 or now
MintedAccess == {GenerateAccessToken(1, users[1], cfg, ti) : ti \in {0, now}}
MintedRefresh == {GenerateRefreshToken(1, users[1], cfg, ti) : ti \in {0, now}}

JwtTokens == SignedTokens \cup MintedAccess \cup MintedRefresh \cup {AlgNone, Garbage}

\* requests that carry one token of JwtTokens: as the bearer token, alone or
\* next to a refresh cookie the server has just made, or as the refresh cookie
\* next to an access token of the server made at time 0
JwtRequests ==
    {[hdr |-> Bearer(tok), access_cookie |-> NoToken, refresh_cookie |-> r] :
        tok \in JwtTokens, r \in {NoToken, GenerateRefreshToken(1, users[1], cfg, now)}}
    \cup {[hdr |-> Bearer(GenerateAccessToken(1, users[1], cfg, 0)),
           access_cookie |-> NoToken, refresh_cookie |-> tok] :
            tok \in {x \in JwtTokens : x.typ = TypeRefresh}}

\* PUT /users/:id bodies: a role, or an active flag
\* the texts Register is called with: the empty username, usernames of two
\* characters (two and four bytes), the seeded username, a new one
UsernameTexts == {<<>>, <<"ab">>, <<EAcute, EAcute>>, <<"admin">>, <<"bob">>}

\* passwords of five characters, of four characters in eight bytes, of nine
PasswordTexts == {<<"short">>, <<EAcute, EAcute, EAcute, EAcute>>, <<"password1">>}

RegisterRoles == {"", RoleManager}

\* RegisterRequest for a username and a password given as texts
RegisterRequest(u, p, role) ==
    [Username |-> Utf8(u), Password |-> Utf8(p), Role |-> role]

\* the largest id the sequence hands out
MaxId == 3

\* the username of the user with id i
UsernameOf(i) ==
    CASE i = 1 -> "admin" [] i = 2 -> "Bob" [] i = 3 -> "eve" [] OTHER -> "bea"

\* the role and the activity a user can have been given
Standings ==
    {[role |-> RoleAdmin, is_active |-> TRUE], [role |-> RoleManager, is_active |-> TRUE],
     [role |-> RoleUser, is_active |-> TRUE], [role |-> RoleUser, is_active |-> FALSE],
     [role |-> RoleGuest, is_active |-> TRUE]}

\* the tables of n users
Stores(n) ==
    {[i \in 1..n |-> [username |-> UsernameOf(i),
                       password |-> HashPassword("password1"),
                       role |-> st[i].role, is_active |-> st[i].is_active,
                       last_login |-> NoLogin]] : st \in [1..n -> Standings]}

\* a table of one user or of MaxId users, each with any role; the list does
\* not read the configuration
InitList ==
    /\ cfg = CHOOSE c \in Configs : TRUE
    /\ \E n \in {1, MaxId} : users \in Stores(n) /\ nextId = n + 1
    /\ now = 0
    /\ ticks = 0
    /\ jar = EmptyJar
    /\ hist = NoHist
    /\ db = "up"
    /\ calls = NoCalls
    /\ last = NoLast

UpdateRequests ==
    {[Role |-> Some(x), IsActive |-> Nil(FALSE)] : x \in Roles \cup {"root"}}
    \cup {[Role |-> Nil(""), IsActive |-> Some(b)] : b \in BOOLEAN}

----------------------------------------------------------------------------
(* Actions *)

\* the clock advances
Tick(d) ==
    /\ ticks < MaxTicks
    /\ now' = now + d
    /\ ticks' = ticks + 1
    /\ last' = [NoLast EXCEPT !.op = "Tick"]
    /\ UNCHANGED <<cfg, db, calls, users, nextId, jar, hist>>

\* the connection to the database is lost: every query fails
StoreFails ==
    /\ db = "up"
    /\ db' = "down"
    /\ last' = [NoLast EXCEPT !.op = "StoreFails"]
    /\ UNCHANGED <<cfg, calls, users, nextId, now, ticks, jar, hist>>

\* the connection to the database is back
StoreRecovers ==
    /\ db = "down"
    /\ db' = "up"
    /\ last' = [NoLast EXCEPT !.op = "StoreRecovers"]
    /\ UNCHANGED <<cfg, calls, users, nextId, now, ticks, jar, hist>>

\* POST /auth/login from the browser: AuthHandler.Login
HttpLogin(username, password) ==
    \E r \in {Login(db, users, cfg, now, username, password)} :
    \E resp \in {LoginResponse(r.err)} :
        /\ users' = IF r.err = ErrNone THEN UpdateLastLogin(users, r.id, now) ELSE users
        /\ jar' = IF r.err = ErrNone
                  THEN SetAuthCookies(r.AccessToken, r.RefreshToken, now) ELSE jar
        /\ last' = [NoLast EXCEPT !.op = "Login", !.status = resp.status,
                       !.message = resp.message, !.err = r.err,
                       !.username = username, !.password = password, !.id = r.id,
                       !.access = r.AccessToken, !.refresh = r.RefreshToken,
                       !.expires_in = r.ExpiresIn, !.browser = TRUE]
        /\ UNCHANGED <<cfg, db, calls, nextId, now, ticks, hist>>

\* POST /auth/refresh from the browser: AuthHandler.RefreshToken with the cookie
HttpRefresh ==
    \E req \in {BrowserRequest(jar, now)} :
    \E g \in {GetRefreshToken(req)} :
    \E r \in {RefreshToken(users, cfg, now, g.token)} :
        /\ g.err = ErrNone
        /\ jar' = IF r.err = ErrNone
                  THEN SetAuthCookies(r.AccessToken, r.RefreshToken, now) ELSE jar
        /\ last' = [NoLast EXCEPT !.op = "HttpRefresh", !.status = RefreshStatus(r.err),
                       !.err = r.err, !.tok = g.token, !.id = r.id, !.req = req,
                       !.access = r.AccessToken, !.refresh = r.RefreshToken,
                       !.expires_in = r.ExpiresIn, !.browser = TRUE]
        /\ UNCHANGED <<cfg, db, calls, users, nextId, now, ticks, hist>>

\* AuthService.RefreshToken called with a token the caller chose; again: the
\* step before was a successful RefreshToken with the same token
CallRefreshToken(tok) ==
    \E r \in {RefreshToken(users, cfg, now, tok)} :
        /\ last' = [NoLast EXCEPT !.op = "RefreshToken", !.err = r.err, !.tok = tok,
                       !.id = r.id, !.access = r.AccessToken,
                       !.refresh = r.RefreshToken, !.expires_in = r.ExpiresIn,
                       !.again = (last.op = "RefreshToken" /\ last.err = ErrNone
                                  /\ last.tok = tok)]
        /\ UNCHANGED <<cfg, db, calls, users, nextId, now, ticks, jar, hist>>

\* AuthService.Logout called with a token the caller chose
CallLogout(tok) ==
    /\ last' = [NoLast EXCEPT !.op = "Logout", !.tok = tok,
                   !.err = Logout(cfg, now, tok)]
    /\ UNCHANGED <<cfg, db, calls, users, nextId, now, ticks, jar, hist>>

\* POST /auth/logout from the browser: AuthHandler.Logout
HttpLogout ==
    \E req \in {BrowserRequest(jar, now)} :
    \E r \in {LogoutHandler(req, cfg, now)} :
        /\ jar' = IF r.clear THEN ClearAuthCookies(jar) ELSE jar
        /\ last' = [NoLast EXCEPT !.op = "HttpLogout", !.status = r.status,
                       !.message = r.message, !.req = req, !.tok = r.tok,
                       !.browser = TRUE]
        /\ UNCHANGED <<cfg, db, calls, users, nextId, now, ticks, hist>>

\* AuthService.ValidateToken called with a token the caller chose
CallValidateToken(tok) ==
    \E r \in {ValidateToken(users, cfg, now, tok)} :
        /\ last' = [NoLast EXCEPT !.op = "ValidateToken", !.err = r.err, !.tok = tok,
                       !.id = r.id]
        /\ UNCHANGED <<cfg, db, calls, users, nextId, now, ticks, jar, hist>>

\* JWTService.ParseAccessToken called with a token the caller chose
CallParseAccessToken(tok) ==
    /\ last' = [NoLast EXCEPT !.op = "ParseAccessToken", !.tok = tok,
                   !.err = ParseAccessToken(tok, cfg, now)]
    /\ UNCHANGED <<cfg, db, calls, users, nextId, now, ticks, jar, hist>>

\* JWTService.ParseRefreshToken called with a token the caller chose
CallParseRefreshToken(tok) ==
    /\ last' = [NoLast EXCEPT !.op = "ParseRefreshToken", !.tok = tok,
                   !.err = ParseRefreshToken(tok, cfg, now)]
    /\ UNCHANGED <<cfg, db, calls, users, nextId, now, ticks, jar, hist>>

\* a request of the browser to a route of `group`: the cookies come from the
\* jar and the cookies of the response go into it
BrowserServe(group) ==
    \E req \in {BrowserRequest(jar, now)} :
    \E r \in {Serve(group, req, users, cfg, now)} :
        /\ jar' = IF r.setc.done
                  THEN SetAuthCookies(r.setc.access, r.setc.refresh, now) ELSE jar
        /\ last' = [NoLast EXCEPT !.op = "Serve", !.group = group, !.req = req,
                       !.status = r.status, !.ctx = r.ctx, !.setc = r.setc,
                       !.handler = r.handler, !.called = r.called, !.browser = TRUE]
        /\ UNCHANGED <<cfg, db, calls, users, nextId, now, ticks, hist>>

\* a request of another client to a route of `group`
CraftedServe(group, req) ==
    \E r \in {Serve(group, req, users, cfg, now)} :
        /\ last' = [NoLast EXCEPT !.op = "Serve", !.group = group, !.req = req,
                       !.status = r.status, !.ctx = r.ctx, !.setc = r.setc,
                       !.handler = r.handler, !.called = r.called]
        /\ UNCHANGED <<cfg, db, calls, users, nextId, now, ticks, jar, hist>>

\* a request of the browser to a route behind RequireAuth and RequireRole(role)
BrowserServeRequireRole(role) ==
    \E req \in {BrowserRequest(jar, now)} :
    \E r \in {ServeRequireRole(role, req, users, cfg, now)} :
        /\ jar' = IF r.setc.done
                  THEN SetAuthCookies(r.setc.access, r.setc.refresh, now) ELSE jar
        /\ last' = [NoLast EXCEPT !.op = "RequireRole", !.role = role, !.req = req,
                       !.status = r.status, !.ctx = r.ctx, !.setc = r.setc,
                       !.handler = r.handler, !.called = r.called, !.browser = TRUE]
        /\ UNCHANGED <<cfg, db, calls, users, nextId, now, ticks, hist>>

\* UserService.UpdateUser
DoUpdateUser(id, req) ==
    \E r \in {UpdateUser(users, id, req)} :
        /\ users' = r.users
        /\ hist' = IF r.err = ErrNone /\ req.IsActive.set
                   THEN IF req.IsActive.v THEN Reactivated(hist, id)
                        ELSE Deactivated(hist, id, now)
                   ELSE hist
        /\ last' = [NoLast EXCEPT !.op = "UpdateUser", !.err = r.err, !.id = id]
        /\ UNCHANGED <<cfg, db, calls, nextId, now, ticks, jar>>

\* UserService.ActivateUser
DoActivateUser(id) ==
    \E r \in {toggleUserActiveStatus(users, id, TRUE)} :
        /\ users' = r.users
        /\ hist' = IF r.err = ErrNone THEN Reactivated(hist, id) ELSE hist
        /\ last' = [NoLast EXCEPT !.op = "ActivateUser", !.err = r.err, !.id = id]
        /\ UNCHANGED <<cfg, db, calls, nextId, now, ticks, jar>>

\* UserService.DeactivateUser
DoDeactivateUser(id) ==
    \E r \in {toggleUserActiveStatus(users, id, FALSE)} :
        /\ users' = r.users
        /\ hist' = IF r.err = ErrNone THEN Deactivated(hist, id, now) ELSE hist
        /\ last' = [NoLast EXCEPT !.op = "DeactivateUser", !.err = r.err, !.id = id]
        /\ UNCHANGED <<cfg, db, calls, nextId, now, ticks, jar>>

\* UserService.DeleteUser
DoDeleteUser(id) ==
    \E r \in {DeleteUser(users, id)} :
        /\ users' = r.users
        /\ hist' = IF r.err = ErrNone THEN Reactivated(hist, id) ELSE hist
        /\ last' = [NoLast EXCEPT !.op = "DeleteUser", !.err = r.err, !.id = id]
        /\ UNCHANGED <<cfg, db, calls, nextId, now, ticks, jar>>

\* AuthService.Register, one call at a time; before: the table it found
DoRegister(u, p, role) ==
    /\ nextId <= MaxId
    /\ \E req \in {RegisterRequest(u, p, role)} :
       \E r \in {Register(db, users, nextId, req)} :
        /\ users' = r.users
        /\ nextId' = r.nextId
        /\ last' = [NoLast EXCEPT !.op = "Register", !.err = r.err,
                       !.username = req.Username, !.password = req.Password,
                       !.role = req.Role,
                       !.text = [username |-> u, password |-> p],
                       !.before = users]
        /\ UNCHANGED <<cfg, db, calls, now, ticks, jar, hist>>

\* the requests of the concurrent callers
RaceUsernames == {"bob", "eve"}

RacePasswords == {"password1", "short"}

\* a caller enters Register: validation and the lookup, on the table as it is
\* now; the call returns here when one of them refuses
RegisterBegin(p, username, password) ==
    /\ calls[p].pc = "idle"
    /\ \E err \in {RegisterCheck(db, users,
                        [Username |-> username, Password |-> password, Role |-> ""])} :
        calls' = [calls EXCEPT ![p] =
                    [NoCall EXCEPT !.pc = IF err = ErrNone THEN "create" ELSE "done",
                                   !.username = username, !.password = password,
                                   !.err = err]]
    /\ last' = [NoLast EXCEPT !.op = "RegisterBegin", !.username = username,
                   !.password = password]
    /\ UNCHANGED <<cfg, db, users, nextId, now, ticks, jar, hist>>

\* the caller goes on after the lookup: the user is built and Create runs on
\* the table as it is by then; the call returns Create's error
RegisterEnd(p) ==
    /\ calls[p].pc = "create"
    /\ \E r \in {RegisterCreate(users, nextId,
                      [Username |-> calls[p].username,
                       Password |-> calls[p].password, Role |-> ""])} :
        /\ users' = r.users
        /\ nextId' = r.nextId
        /\ calls' = [calls EXCEPT ![p].pc = "done", ![p].err = r.err]
    /\ last' = [NoLast EXCEPT !.op = "RegisterEnd", !.username = calls[p].username,
                   !.password = calls[p].password]
    /\ UNCHANGED <<cfg, db, now, ticks, jar, hist>>

\* the server starts on the database as it is: NewDatabaseService, migrate,
\* seedData
Startup ==
    /\ nextId <= MaxId
    /\ \E r \in {seedData(users, nextId)} :
        /\ users' = r.users
        /\ nextId' = r.nextId
    /\ last' = [NoLast EXCEPT !.op = "seedData", !.before = users]
    /\ UNCHANGED <<cfg, db, calls, now, ticks, jar, hist>>

\* a request of the browser enters RequireAuth: the token is extracted and
\* parsed; without a token the request is answered at once
RequireAuthBegin(p) ==
    /\ calls[p].pc = "idle"
    /\ \E req \in {BrowserRequest(jar, now)} :
       \E ex \in {extractToken(req)} :
        calls' = [calls EXCEPT ![p] =
                    IF ex.err # ErrNone
                    THEN [NoCall EXCEPT !.pc = "done", !.req = req, !.status = 401,
                                        !.err = ex.err]
                    ELSE [NoCall EXCEPT !.pc = "parsed", !.req = req,
                                        !.err = ParseAccessToken(ex.token, cfg, now)]]
    /\ last' = [NoLast EXCEPT !.op = "RequireAuthBegin"]
    /\ UNCHANGED <<cfg, db, users, nextId, now, ticks, jar, hist>>

\* the request goes on after the parse: on an expiry error attemptTokenRefresh
\* runs against the store as it is by then and writes the cookies; every
\* other error is answered 401; a parsed token gives the identity
RequireAuthEnd(p) ==
    /\ calls[p].pc = "parsed"
    /\ \E c \in {calls[p]} :
       \E a \in {IF isTokenExpiredError(c.err)
                  THEN attemptTokenRefresh(c.req, users, cfg, now)
                  ELSE [ok |-> FALSE, ctx |-> NoCtx, setc |-> NoSetCookies,
                        called |-> FALSE]} :
        /\ calls' = [calls EXCEPT ![p] =
                        IF c.err = ErrNone
                        THEN [c EXCEPT !.pc = "done", !.status = 200,
                                       !.ctx = ExtractUserFromToken(extractToken(c.req).token)]
                        ELSE IF a.ok
                        THEN [c EXCEPT !.pc = "done", !.status = 200, !.ctx = a.ctx,
                                       !.renewals = @ + 1]
                        ELSE [c EXCEPT !.pc = "done", !.status = 401,
                                       !.renewals = IF a.called THEN @ + 1 ELSE @]]
        /\ jar' = IF a.setc.done
                  THEN SetAuthCookies(a.setc.access, a.setc.refresh, now) ELSE jar
    /\ last' = [NoLast EXCEPT !.op = "RequireAuthEnd"]
    /\ UNCHANGED <<cfg, db, users, nextId, now, ticks, hist>>

\* the writers of a user record that run concurrently, with their requests
Writers ==
    {[op |-> "DeactivateUser"],
     [op |-> "ChangePassword",
      req |-> [CurrentPassword |-> "admin123", NewPassword |-> "newpass12"]],
     [op |-> "UpdateUser",
      req |-> [Role |-> Some(RoleManager), IsActive |-> Nil(FALSE)]]}

\* the read part of a writer
WriterRead(us, id, w) ==
    CASE w.op = "DeactivateUser" -> toggleUserActiveStatusRead(us, id, FALSE)
      [] w.op = "ChangePassword" -> ChangePasswordRead(us, id, w.req)
      [] w.op = "UpdateUser" -> UpdateUserRead(us, id, w.req)

\* a writer starts: it reads the record with GetByID and changes its copy;
\* the call returns here when the read or a check fails
WriterBegin(p, id, w) ==
    /\ calls[p].pc = "idle"
    /\ \E r \in {WriterRead(users, id, w)} :
        calls' = [calls EXCEPT ![p] =
                    [NoCall EXCEPT !.pc = IF r.err = ErrNone THEN "write" ELSE "done",
                                   !.op = w.op, !.id = id, !.row = r.user,
                                   !.err = r.err]]
    /\ last' = [NoLast EXCEPT !.op = "WriterBegin", !.id = id]
    /\ UNCHANGED <<cfg, db, users, nextId, now, ticks, jar, hist>>

\* the writer saves its copy with UserRepository.Update
WriterEnd(p) ==
    /\ calls[p].pc = "write"
    /\ \E r \in {Update(users, calls[p].id, calls[p].row)} :
        /\ users' = r.users
        /\ calls' = [calls EXCEPT ![p].pc = "done", ![p].err = r.err]
    /\ last' = [NoLast EXCEPT !.op = "WriterEnd", !.id = calls[p].id]
    /\ UNCHANGED <<cfg, db, nextId, now, ticks, jar, hist>>

\* UserHandler.CreateUser: the status for each error of the service
CreateUserStatus(err) ==
    CASE err = ErrNone -> 201
      [] err = ErrUserAlreadyExists -> 409
      [] err \in {ErrInvalidUsername, ErrPasswordTooShort} -> 400
      [] OTHER -> 500

\* UserHandler.UpdateUser: the status for each error of the service
UpdateUserStatus(err) ==
    CASE err = ErrNone -> 200
      [] err = ErrUserNotFound -> 404
      [] err = ErrUserAlreadyExists -> 409
      [] err = ErrInvalidUsername -> 400
      [] OTHER -> 500

\* the bodies of POST /manager/users: the role is the one the client wrote
CreateUserBodies ==
    {[Username |-> u, Password |-> "password1", Role |-> r, IsActive |-> TRUE] :
        u \in {"mgr", "ann"}, r \in {RoleManager, RoleAdmin}}

\* the bodies of PUT /manager/users/:id
UpdateUserBodies ==
    {[Role |-> Some(r), IsActive |-> Nil(FALSE)] : r \in {RoleAdmin, RoleUser}}

\* POST /manager/users from the browser: RequireAuth, RequireManagerOrHigher,
\* then UserHandler.CreateUser with the role of the body
HttpCreateUser(body) ==
    /\ nextId <= MaxId
    /\ \E req \in {BrowserRequest(jar, now)} :
       \E g \in {Serve("manager", req, users, cfg, now)} :
       \E r \in {IF g.handler THEN CreateUser(users, nextId, body)
                  ELSE [err |-> ErrNone, users |-> users]} :
        /\ users' = r.users
        /\ nextId' = IF g.handler /\ r.err = ErrNone THEN nextId + 1 ELSE nextId
        /\ jar' = IF g.setc.done
                  THEN SetAuthCookies(g.setc.access, g.setc.refresh, now) ELSE jar
        /\ last' = [NoLast EXCEPT !.op = "HttpCreateUser", !.group = "manager",
                       !.req = req, !.ctx = g.ctx, !.handler = g.handler,
                       !.status = IF g.handler THEN CreateUserStatus(r.err)
                                  ELSE g.status,
                       !.err = r.err, !.username = body.Username,
                       !.role = body.Role, !.before = users, !.browser = TRUE]
        /\ UNCHANGED <<cfg, db, calls, now, ticks, hist>>

\* PUT /manager/users/:id from the browser: the same gate, then
\* UserHandler.UpdateUser with the role of the body
HttpUpdateUser(id, body) ==
    \E req \in {BrowserRequest(jar, now)} :
    \E g \in {Serve("manager", req, users, cfg, now)} :
    \E r \in {IF g.handler THEN UpdateUser(users, id, body)
               ELSE [err |-> ErrNone, users |-> users]} :
        /\ users' = r.users
        /\ jar' = IF g.setc.done
                  THEN SetAuthCookies(g.setc.access, g.setc.refresh, now) ELSE jar
        /\ last' = [NoLast EXCEPT !.op = "HttpUpdateUser", !.group = "manager",
                       !.req = req, !.ctx = g.ctx, !.handler = g.handler,
                       !.status = IF g.handler THEN UpdateUserStatus(r.err)
                                  ELSE g.status,
                       !.err = r.err, !.id = id, !.role = body.Role.v,
                       !.before = users, !.browser = TRUE]
        /\ UNCHANGED <<cfg, db, calls, nextId, now, ticks, hist>>

\* POST register behind the manager gate: AuthHandler.Register writes
\* RoleUser into the service request whatever the body says
HttpRegister(username, password) ==
    /\ nextId <= MaxId
    /\ \E req \in {BrowserRequest(jar, now)} :
       \E g \in {Serve("manager", req, users, cfg, now)} :
       \E r \in {IF g.handler
                  THEN Register(db, users, nextId,
                                [Username |-> username, Password |-> password,
                                 Role |-> RoleUser])
                  ELSE [err |-> ErrNone, users |-> users, nextId |-> nextId]} :
        /\ users' = r.users
        /\ nextId' = r.nextId
        /\ jar' = IF g.setc.done
                  THEN SetAuthCookies(g.setc.access, g.setc.refresh, now) ELSE jar
        /\ last' = [NoLast EXCEPT !.op = "HttpRegister", !.group = "manager",
                       !.req = req, !.ctx = g.ctx, !.handler = g.handler,
                       !.status = IF g.handler
                                  THEN IF r.err = ErrNone THEN 201
                                       ELSE CreateUserStatus(r.err)
                                  ELSE g.status,
                       !.err = r.err, !.username = username,
                       !.before = users, !.browser = TRUE]
        /\ UNCHANGED <<cfg, db, calls, now, ticks, hist>>

\* the current passwords ChangePassword is called with
CurrentPasswords == {"admin123", "password1", "wrongpass"}

\* the new passwords, as texts: five characters, four characters in eight
\* bytes, nine characters, and the seeded password again
NewPasswordTexts == PasswordTexts \cup {<<"admin123">>}

\* UserService.ChangePassword of user id
DoChangePassword(id, current, new) ==
    \E req \in {[CurrentPassword |-> current, NewPassword |-> Utf8(new)]} :
    \E r \in {ChangePassword(users, id, req)} :
        /\ users' = r.users
        /\ last' = [NoLast EXCEPT !.op = "ChangePassword", !.err = r.err, !.id = id,
                       !.password = current,
                       !.text = [username |-> <<>>, password |-> new],
                       !.before = users]
        /\ UNCHANGED <<cfg, db, calls, nextId, now, ticks, jar, hist>>

\* UserService.ListUsersForManager called with a request
CallListUsersForManager(req) ==
    /\ last' = [NoLast EXCEPT !.op = "ListUsersForManager", !.list = req,
                   !.listed = ListUsersForManager(users, req)]
    /\ UNCHANGED <<cfg, db, calls, users, nextId, now, ticks, jar, hist>>

\* the administrative operations on the store
Administer ==
    \/ \E req \in UpdateRequests : DoUpdateUser(1, req)
    \/ DoUpdateUser(2, [Role |-> Some(RoleManager), IsActive |-> Nil(FALSE)])
    \/ DoActivateUser(1)
    \/ DoDeactivateUser(1)
    \/ DoDeleteUser(1)

----------------------------------------------------------------------------
(* Specifications *)

\* the middleware chain: browser and other clients against the route groups
NextGate ==
    \/ \E d \in ClockSteps : Tick(d)
    \/ HttpLogin("admin", "admin123")
    \/ \E g \in Groups : BrowserServe(g)
    \/ \E gr \in CraftedRequests : CraftedServe(gr[1], gr[2])
    \/ \E r \in Roles : BrowserServeRequireRole(r)
    \/ Administer

SpecGate == Init /\ [][NextGate]_vars

\* the authentication service: login, refresh and validation calls
NextAuth ==
    \/ \E d \in ClockSteps : Tick(d)
    \/ \E u \in Usernames, p \in Passwords : HttpLogin(u, p)
    \/ HttpRefresh
    \/ HttpLogout
    \/ \E tok \in TokenCandidates : CallRefreshToken(tok)
    \/ \E tok \in TokenCandidates : CallValidateToken(tok)
    \/ \E tok \in TokenCandidates : CallLogout(tok)
    \/ Administer

SpecAuth == Init /\ [][NextAuth]_vars

\* registrations, one at a time, and the operations that change the table
NextStore ==
    \/ \E u \in UsernameTexts, p \in PasswordTexts, role \in RegisterRoles :
          DoRegister(u, p, role)
    \/ \E id \in DOMAIN users : DoDeleteUser(id)
    \/ \E id \in DOMAIN users, role \in {RoleAdmin, RoleUser} :
          DoUpdateUser(id, [Role |-> Some(role), IsActive |-> Nil(FALSE)])
    \/ Startup
    \/ HttpLogin("admin", "admin123")

SpecStore == Init /\ [][NextStore]_vars

\* Register calls of several callers, interleaved at the store's round trips
NextRace ==
    \/ \E p \in Callers, u \in RaceUsernames, pw \in RacePasswords :
          RegisterBegin(p, u, pw)
    \/ \E p \in Callers : RegisterEnd(p)

SpecRace == Init /\ [][NextRace]_vars

\* requests of one browser that pass RequireAuth at the same time
NextRenew ==
    \/ \E d \in ClockSteps : Tick(d)
    \/ HttpLogin("admin", "admin123")
    \/ \E p \in Callers : RequireAuthBegin(p)
    \/ \E p \in Callers : RequireAuthEnd(p)

SpecRenew == Init /\ [][NextRenew]_vars

\* writers of the record of user 1 that run at the same time, and logins
NextWriters ==
    \/ \E p \in Callers, w \in Writers : WriterBegin(p, 1, w)
    \/ \E p \in Callers : WriterEnd(p)
    \/ \E pw \in {"admin123", "newpass12"} : HttpLogin("admin", pw)

SpecWriters == Init /\ [][NextWriters]_vars

\* the user management of the manager group, used by whoever is logged in
NextManager ==
    \/ HttpLogin("admin", "admin123")
    \/ HttpLogin("mgr", "password1")
    \/ \E body \in CreateUserBodies : HttpCreateUser(body)
    \/ \E id \in 1..MaxId, body \in UpdateUserBodies : HttpUpdateUser(id, body)
    \/ HttpRegister("eve", "password1")

SpecManager == Init /\ [][NextManager]_vars

\* the manager's list on tables of every content
NextList == \E req \in ListRequests : CallListUsersForManager(req)

SpecList == InitList /\ [][NextList]_vars

\* password changes between logins, on an account that is switched off and on
NextPassword ==
    \/ \E d \in ClockSteps : Tick(d)
    \/ \E pw \in {Utf8(t) : t \in NewPasswordTexts} : HttpLogin("admin", pw)
    \/ \E id \in Ids, current \in CurrentPasswords, new \in NewPasswordTexts :
          DoChangePassword(id, current, new)
    \/ DoDeactivateUser(1)
    \/ DoActivateUser(1)

SpecPassword == Init /\ [][NextPassword]_vars

\* logins against a database whose connection comes and goes
NextFault ==
    \/ \E d \in ClockSteps : Tick(d)
    \/ StoreFails
    \/ StoreRecovers
    \/ \E u \in Usernames, p \in Passwords : HttpLogin(u, p)

SpecFault == Init /\ [][NextFault]_vars

\* the token service: parsers and their callers on tokens of every origin
NextJwt ==
    \/ \E d \in ClockSteps : Tick(d)
    \/ \E tok \in JwtTokens : CallParseAccessToken(tok)
    \/ \E tok \in JwtTokens : CallParseRefreshToken(tok)
    \/ \E tok \in JwtTokens : CallRefreshToken(tok)
    \/ \E tok \in JwtTokens : CallValidateToken(tok)
    \/ \E req \in JwtRequests : CraftedServe("admin", req)

SpecJwt == InitJwt /\ [][NextJwt]_vars

----------------------------------------------------------------------------
(* Properties *)

\* the token RequireAuth takes from the last request
Presented == extractToken(last.req).token

\* correctly signed, of type access, and expired at `now`
ExpiredAccessToken(tok) ==
    /\ tok.form = "jwt" /\ tok.alg = "HS256" /\ tok.key = cfg.SecretKey
    /\ tok.typ = TypeAccess
    /\ now >= tok.exp

\* stored and active
ActiveUser(id) == id \in DOMAIN users /\ users[id].is_active

\* the last step was a request through RequireAuth
Served == last.op \in {"Serve", "RequireRole"}

\* C1: a request with an expired, correctly signed access token and a refresh
\* cookie holding an unexpired, correctly signed refresh token of an active
\* user passes RequireAuth with an identity attached (and reaches the handler
\* of a route without a role gate), and the response sets the cookies to the
\* pair RefreshToken issues.
C1_TransparentRenewal ==
    LET rc == last.req.refresh_cookie
        r == RefreshToken(users, cfg, now, rc)
    IN  (/\ Served
         /\ extractToken(last.req).err = ErrNone
         /\ ExpiredAccessToken(Presented)
         /\ ParseRefreshToken(rc, cfg, now) = ErrNone
         /\ ActiveUser(rc.user_id))
        => /\ last.status # 401
           /\ last.ctx.set
           /\ (last.op = "Serve" /\ last.group = "protected" => last.handler)
           /\ last.setc = [done |-> TRUE, access |-> r.AccessToken,
                           refresh |-> r.RefreshToken]

\* C2: a request with an expired access token whose refresh cookie is absent,
\* expired or invalid is answered 401, the handler does not run, no identity
\* is put into the context and no cookie is set.
C2_ExpiredWithoutRefresh ==
    (/\ Served
     /\ extractToken(last.req).err = ErrNone
     /\ ExpiredAccessToken(Presented)
     /\ ParseRefreshToken(last.req.refresh_cookie, cfg, now) # ErrNone)
    => /\ last.status = 401
       /\ ~last.handler
       /\ last.ctx = NoCtx
       /\ ~last.setc.done

\* C2 happens: an expired access token next to an expired refresh token of the
\* server is answered 401
C2_Witness ==
    /\ last.op = "Serve"
    /\ ExpiredAccessToken(Presented)
    /\ last.req.refresh_cookie.form = "jwt"
    /\ last.req.refresh_cookie.key = cfg.RefreshSecret
    /\ now >= last.req.refresh_cookie.exp
    /\ last.status = 401

\* C3: for every stored user and every pair of secrets, equal ones included, a
\* token made by GenerateAccessToken is rejected by ParseRefreshToken and a
\* token made by GenerateRefreshToken is rejected by ParseAccessToken.
C3_TypeConfusionRejected ==
    /\ (last.op = "ParseRefreshToken" /\ last.tok \in MintedAccess) => last.err # ErrNone
    /\ (last.op = "ParseAccessToken" /\ last.tok \in MintedRefresh) => last.err # ErrNone

\* C3 happens with equal secrets: an unexpired refresh token is rejected by
\* ParseAccessToken for its type alone
C3_Witness ==
    /\ last.op = "ParseAccessToken"
    /\ last.tok \in MintedRefresh
    /\ cfg.RefreshSecret = cfg.SecretKey
    /\ now < last.tok.exp
    /\ last.err = "invalid token type"

\* an HS256 token signed with a key that is not `secret`
SignedWithOther(tok, secret) ==
    tok.form = "jwt" /\ tok.alg = "HS256" /\ tok.key # secret

\* C4: a token signed with a secret other than the one of the expected class
\* is rejected by ParseAccessToken / ParseRefreshToken whatever its claims;
\* ValidateToken and RefreshToken refuse it and issue nothing, and RequireAuth
\* attaches no identity, runs no handler and sets no cookie for it.
C4_WrongSecretRejected ==
    /\ (last.op = "ParseAccessToken" /\ SignedWithOther(last.tok, cfg.SecretKey))
        => last.err # ErrNone
    /\ (last.op = "ParseRefreshToken" /\ SignedWithOther(last.tok, cfg.RefreshSecret))
        => last.err # ErrNone
    /\ (last.op = "ValidateToken" /\ SignedWithOther(last.tok, cfg.SecretKey))
        => last.err = ErrInvalidToken /\ last.id = 0
    /\ (last.op = "RefreshToken" /\ SignedWithOther(last.tok, cfg.RefreshSecret))
        => last.err = ErrInvalidToken /\ last.access = NoToken /\ last.refresh = NoToken
    /\ (Served /\ SignedWithOther(Presented, cfg.SecretKey))
        => last.ctx = NoCtx /\ ~last.handler /\ ~last.setc.done
    /\ (Served /\ SignedWithOther(last.req.refresh_cookie, cfg.RefreshSecret))
        => ~last.setc.done

\* C4 happens: an unexpired token with the claims of an admin's access token,
\* signed with the server's refresh secret, is rejected by ParseAccessToken
C4_Witness ==
    /\ last.op = "ParseAccessToken"
    /\ last.tok.form = "jwt"
    /\ last.tok.typ = TypeAccess
    /\ last.tok.role = RoleAdmin
    /\ last.tok.key = cfg.RefreshSecret
    /\ cfg.RefreshSecret # cfg.SecretKey
    /\ now < last.tok.exp
    /\ last.err = "token signature is invalid: signature is invalid"

\* the last step was a RefreshToken / ValidateToken call with a correctly
\* signed, unexpired token of its class
ValidTokenCall ==
    \/ last.op = "RefreshToken" /\ ParseRefreshToken(last.tok, cfg, now) = ErrNone
    \/ last.op = "ValidateToken" /\ ParseAccessToken(last.tok, cfg, now) = ErrNone

\* C5 as stated: once a deactivation of a user has completed, every later
\* RefreshToken / ValidateToken call with a valid token of that user returns
\* ErrUserDeactivated and issues nothing.
C5_DeactivatedForEver ==
    (ValidTokenCall /\ last.tok.user_id \in hist.deactivated)
    => /\ last.err = ErrUserDeactivated
       /\ last.access = NoToken /\ last.refresh = NoToken

\* C5, amended: once a deactivation of a user has completed, every later
\* RefreshToken / ValidateToken call with a valid token of that user returns
\* ErrUserDeactivated and issues nothing, as long as the user's row exists and
\* has not been activated again.
C5_DeactivatedWhileInactive ==
    (/\ ValidTokenCall
     /\ last.tok.user_id \in hist.deactivated
     /\ last.tok.user_id \in DOMAIN users
     /\ ~users[last.tok.user_id].is_active)
    => /\ last.err = ErrUserDeactivated
       /\ last.access = NoToken /\ last.refresh = NoToken

\* C5 happens: RefreshToken with an unexpired refresh token of a deactivated
\* user is refused with ErrUserDeactivated
C5_Witness ==
    /\ last.op = "RefreshToken"
    /\ ParseRefreshToken(last.tok, cfg, now) = ErrNone
    /\ last.tok.user_id \in hist.deactivated
    /\ ~ActiveUser(last.tok.user_id)
    /\ last.err = ErrUserDeactivated

\* C6: Login of an active stored user with its password returns an access
\* token and a refresh token that carry the id, username and role of the
\* stored row, with types access and refresh, and each is accepted by the
\* parser of its class.
C6_LoginTokens ==
    LET r == GetByUsername(db, users, last.username)
    IN  (/\ last.op = "Login"
         /\ r.err = ErrNone
         /\ r.user.is_active
         /\ VerifyPassword(r.user, last.password))
        => /\ last.err = ErrNone
           /\ last.access.typ = TypeAccess
           /\ last.refresh.typ = TypeRefresh
           /\ \A tok \in {last.access, last.refresh} :
                /\ tok.user_id = r.id
                /\ tok.username = r.user.username
                /\ tok.role = r.user.role
           /\ ParseAccessToken(last.access, cfg, now) = ErrNone
           /\ ParseRefreshToken(last.refresh, cfg, now) = ErrNone

\* C6 happens: a login of the seeded user after its role was changed to
\* manager returns tokens with the role manager
C6_Witness ==
    /\ last.op = "Login"
    /\ last.err = ErrNone
    /\ 1 \in DOMAIN users
    /\ users[1].role = RoleManager
    /\ last.access.role = RoleManager
    /\ last.refresh.role = RoleManager

\* the store without the row of `username`
Without(us, username) ==
    [i \in {j \in DOMAIN us : us[j].username # username} |-> us[i]]

C8_RoleGates ==
    /\ (last.op = "RequireRole" /\ last.ctx.set)
        => /\ last.handler <=> last.ctx.role = last.role
           /\ ~last.handler => last.status = 403
    /\ (last.op = "Serve" /\ last.group = "admin" /\ last.ctx.set)
        => /\ last.handler <=> last.ctx.role = RoleAdmin
           /\ ~last.handler => last.status = 403
    /\ (last.op = "Serve" /\ last.group = "manager" /\ last.ctx.set)
        => /\ last.handler <=> last.ctx.role \in {RoleAdmin, RoleManager}
           /\ ~last.handler => last.status = 403
    /\ RequireAdmin(last.ctx) = RequireRole(RoleAdmin, last.ctx)

\* C8 happens: a manager's request to an admin route is answered 403
C8_Witness ==
    /\ last.op = "Serve"
    /\ last.group = "admin"
    /\ last.ctx.set
    /\ last.ctx.role = RoleManager
    /\ last.status = 403
    /\ ~last.handler

\* C9: a browser that keeps only the cookies SetAuthCookies wrote, of an
\* active user, is never answered 401 by RequireAuth while less than the
\* refresh TTL has passed since its cookies were written.
C9_SlidingSession ==
    (/\ Served
     /\ last.browser
     /\ jar.refresh.value # NoToken
     /\ ActiveUser(jar.refresh.value.user_id)
     /\ now - jar.refresh.value.nbf < cfg.RefreshExpiry)
    => last.status # 401

\* C10: RefreshToken with an unexpired refresh token of a stored, active user
\* succeeds and issues an access token and a refresh token made at the time
\* of the call, whether or not the same token was renewed before.
C10_RefreshTokenReusable ==
    (/\ last.op = "RefreshToken"
     /\ ParseRefreshToken(last.tok, cfg, now) = ErrNone
     /\ ActiveUser(last.tok.user_id))
    => /\ last.err = ErrNone
       /\ last.access = GenerateAccessToken(last.tok.user_id, users[last.tok.user_id], cfg, now)
       /\ last.refresh = GenerateRefreshToken(last.tok.user_id, users[last.tok.user_id], cfg, now)

\* C10 happens: a RefreshToken call succeeds with the token the call before
\* it has renewed
C10_Witness ==
    /\ last.op = "RefreshToken"
    /\ last.again
    /\ last.err = ErrNone
    /\ last.refresh # NoToken

C12_LogoutClearsCookies ==
    (last.op = "HttpLogout" /\ last.status = 200)
    => /\ Sent(jar.access, now) = NoToken
       /\ Sent(jar.refresh, now) = NoToken

\* C13: for every configured access-token TTL, the ExpiresIn that Login and
\* RefreshToken return equals that TTL in minutes, which is the lifetime of
\* the access token issued in the same response.
C13_ExpiresInIsConfiguredTtl ==
    (last.op \in {"Login", "RefreshToken", "HttpRefresh"} /\ last.err = ErrNone)
    => /\ last.expires_in = cfg.AccessExpiry
       /\ last.expires_in = last.access.exp - now

\* C14: when the store fails with an error other than not-found during the
\* lookup of Login, the caller sees a generic server error, an answer distinct
\* from the InvalidCredentials answer of a username that is not stored.
C14_StoreFailureIsServerError ==
    (/\ last.op = "Login"
     /\ db = "down"
     /\ last.username # "" /\ last.password # "")
    => /\ last.status = 500
       /\ last.err # ErrInvalidCredentials
       /\ [status |-> last.status, message |-> last.message]
            # HttpLoginResponse("up", Without(users, last.username), cfg, now,
                                last.username, last.password)

\* the number of characters of a text
RECURSIVE RuneCount(_)
RuneCount(text) ==
    IF text = <<>> THEN 0
    ELSE (IF Head(text) \in WideChars THEN 1 ELSE Len(Head(text)))
         + RuneCount(Tail(text))

\* the table Register found holds a user of the username it was called with
Taken == \E i \in DOMAIN last.before : last.before[i].username = last.username

\* the three refusals leave the table as it was; a success adds exactly one
\* row: the username, active, the password hashed
RegisterEffect ==
    /\ last.err \in {ErrInvalidUsername, ErrPasswordTooShort, ErrUserAlreadyExists}
         => users = last.before
    /\ last.err = ErrNone
         => \E id \in DOMAIN users \ DOMAIN last.before :
              /\ DOMAIN users = DOMAIN last.before \cup {id}
              /\ \A i \in DOMAIN last.before : users[i] = last.before[i]
              /\ users[id].username = last.username
              /\ users[id].is_active
              /\ users[id].password = HashPassword(last.password)
              /\ VerifyPassword(users[id], last.password)

\* C15 as stated: Register returns InvalidUsername when the username has fewer
\* than 3 characters, otherwise PasswordTooShort when the password has fewer
\* than 8 characters, otherwise UserAlreadyExists when the username is in the
\* store; the three refusals leave the store unchanged and a success adds
\* exactly one active user with a hashed password.
C15_RegisterByCharacters ==
    last.op = "Register"
    => LET nu == RuneCount(last.text.username)
           np == RuneCount(last.text.password)
       IN  /\ nu < MinUsernameLen => last.err = ErrInvalidUsername
           /\ (nu >= MinUsernameLen /\ np < MinPasswordLen)
                => last.err = ErrPasswordTooShort
           /\ (nu >= MinUsernameLen /\ np >= MinPasswordLen /\ Taken)
                => last.err = ErrUserAlreadyExists
           /\ RegisterEffect

\* C15, amended: the lengths are lengths in bytes of the UTF-8 encoding.
\* Register returns InvalidUsername when the username has fewer than 3 bytes,
\* otherwise PasswordTooShort when the password has fewer than 8 bytes,
\* otherwise UserAlreadyExists when the username is in the store; the three
\* refusals leave the store unchanged and a success adds exactly one active
\* user with a hashed password.
C15_RegisterByBytes ==
    last.op = "Register"
    => LET nu == Len(last.username)
           np == Len(last.password)
       IN  /\ nu < MinUsernameLen => last.err = ErrInvalidUsername
           /\ (nu >= MinUsernameLen /\ np < MinPasswordLen)
                => last.err = ErrPasswordTooShort
           /\ (nu >= MinUsernameLen /\ np >= MinPasswordLen /\ Taken)
                => last.err = ErrUserAlreadyExists
           /\ (nu >= MinUsernameLen /\ np >= MinPasswordLen /\ ~Taken)
                => last.err = ErrNone
           /\ RegisterEffect

\* C15 happens: a registration is refused as a duplicate of a user that an
\* earlier registration added
C15_Witness ==
    /\ last.op = "Register"
    /\ last.err = ErrUserAlreadyExists
    /\ last.username # "admin"
    /\ users = last.before

\* C16: when concurrent Register calls with the same username have all
\* returned, the store holds exactly one user of that username, exactly one
\* call succeeded and every other call returned UserAlreadyExists.
C16_ConcurrentRegister ==
    \A u \in RaceUsernames :
        LET same == {p \in Callers : calls[p].username = u
                                     /\ Len(calls[p].password) >= MinPasswordLen}
        IN  (Cardinality(same) >= 2 /\ \A p \in same : calls[p].pc = "done")
            => /\ Cardinality({i \in DOMAIN users : users[i].username = u}) = 1
               /\ Cardinality({p \in same : calls[p].err = ErrNone}) = 1
               /\ \A p \in same : calls[p].err \in {ErrNone, ErrUserAlreadyExists}

\* C17: creating, deleting, activating and deactivating users are admin-only:
\* no request whose identity has role manager, user or guest reaches the
\* CreateUser, DeleteUser, ActivateUser or DeactivateUser handler.
C17_AdminOnlyHandlers ==
    (/\ last.op = "Serve"
     /\ last.handler
     /\ last.ctx.role \in {RoleManager, RoleUser, RoleGuest})
    => Handlers(last.group)
         \cap {"CreateUser", "DeleteUser", "ActivateUser", "DeactivateUser"} = {}

\* the last request was decided by validating `tok`: a token that parses
\* gives the request its identity, a token that fails for a reason other than
\* expiry gives 401 without identity and without handler
DecidedBy(tok) ==
    IF ParseAccessToken(tok, cfg, now) = ErrNone
    THEN last.status # 401 /\ last.ctx = ExtractUserFromToken(tok)
    ELSE ExpiredAccessToken(tok)
         \/ (last.status = 401 /\ last.ctx = NoCtx /\ ~last.handler)

\* C18: in RequireAuth a well-formed "Bearer <token>" Authorization header
\* gives the token that is validated, also when an access cookie is present;
\* without such a header the access cookie's token is validated; with neither
\* the answer is 401, without identity, and the handler is not invoked.
C18_ExtractionPrecedence ==
    Served
    => /\ last.req.hdr.kind = "bearer" => DecidedBy(last.req.hdr.token)
       /\ (last.req.hdr.kind # "bearer" /\ last.req.access_cookie # NoToken)
            => DecidedBy(last.req.access_cookie)
       /\ (last.req.hdr.kind # "bearer" /\ last.req.access_cookie = NoToken)
            => (last.status = 401 /\ last.ctx = NoCtx /\ ~last.handler)

\* C18 happens: a request with a garbage Bearer token and a valid access
\* cookie is refused: the header's token was the one validated
C18_Witness ==
    /\ Served
    /\ last.req.hdr = Bearer(Garbage)
    /\ ParseAccessToken(last.req.access_cookie, cfg, now) = ErrNone
    /\ last.status = 401
    /\ last.ctx = NoCtx

\* the validation of the presented access token failed for a reason other
\* than expiry: malformed, unverifiable, bad signature, not yet valid, wrong type
FailedNotExpired ==
    /\ extractToken(last.req).err = ErrNone
    /\ ParseAccessToken(Presented, cfg, now)
         \notin {ErrNone, "token has invalid claims: token is expired"}

\* C19: when the validation of the access token in RequireAuth fails for a
\* reason other than expiry, the request is answered 401, RefreshToken is not
\* called and no cookie is written, also when the request carries a valid
\* refresh cookie.
C19_NoRenewalOnOtherFailures ==
    (Served /\ FailedNotExpired)
    => /\ last.status = 401
       /\ ~last.called
       /\ ~last.setc.done
       /\ last.ctx = NoCtx
       /\ ~last.handler

\* C19 happens: a request whose access token fails for another reason than
\* expiry, with a refresh cookie that RefreshToken accepts, is answered 401
C19_Witness ==
    /\ Served
    /\ FailedNotExpired
    /\ RefreshToken(users, cfg, now, last.req.refresh_cookie).err = ErrNone
    /\ last.status = 401
    /\ ~last.called

\* the table holds the seeded admin and nothing else
FreshlySeeded ==
    \E id \in DOMAIN users :
        /\ DOMAIN users = {id}
        /\ [users[id] EXCEPT !.last_login = NoLogin] = SeedAdmin

\* C20: seeding creates the default active user admin / admin123 of role admin
\* exactly when the store holds no user of role admin and creates nothing
\* otherwise; on a freshly seeded store Login(admin, admin123) succeeds with
\* role admin and ExpiresIn = 15.
C20_Seeding ==
    /\ last.op = "seedData"
        => IF \E i \in DOMAIN last.before : last.before[i].role = RoleAdmin
           THEN users = last.before
           ELSE \E id \in DOMAIN users \ DOMAIN last.before :
                  /\ DOMAIN users = DOMAIN last.before \cup {id}
                  /\ \A i \in DOMAIN last.before : users[i] = last.before[i]
                  /\ users[id] = SeedAdmin
    /\ (last.op = "Login" /\ FreshlySeeded)
        => /\ last.err = ErrNone
           /\ last.access.role = RoleAdmin
           /\ last.expires_in = LoginExpiresIn

\* the identity of the last request is the one embedded in `tok`, and `tok`
\* validates as an access token
IdentityOf(tok) ==
    /\ ParseAccessToken(tok, cfg, now) = ErrNone
    /\ last.ctx = ExtractUserFromToken(tok)

\* C21: every request ends in exactly one of rejected-401, rejected-403 and
\* handler-invoked; a handler is invoked only with the identity embedded in a
\* token that validated as an access token during the request (the presented
\* one, or the one issued by the renewal); a handler of the manager group
\* only if that role is admin or manager, of the admin group only for admin.
C21_Admission ==
    Served
    => /\ \/ (last.status = 401 /\ ~last.handler)
          \/ (last.status = 403 /\ ~last.handler)
          \/ (last.handler /\ last.status \notin {401, 403})
       /\ last.handler
            => /\ last.ctx.set
               /\ \/ (extractToken(last.req).err = ErrNone /\ IdentityOf(Presented))
                  \/ (last.setc.done /\ IdentityOf(last.setc.access))
       /\ (last.handler /\ last.op = "Serve" /\ last.group = "manager")
            => last.ctx.role \in {RoleAdmin, RoleManager}
       /\ (last.handler /\ last.op = "Serve" /\ last.group = "admin")
            => last.ctx.role = RoleAdmin

\* C21 happens: a handler of the manager group is invoked for a manager
C21_Witness ==
    /\ last.op = "Serve"
    /\ last.group = "manager"
    /\ last.handler
    /\ last.status = 200
    /\ last.ctx.role = RoleManager
    /\ IdentityOf(Presented)

\* C22: RefreshToken takes the role from the store at the time of the refresh,
\* not from the presented token: after the stored role of a user was changed,
\* both tokens of the next successful RefreshToken carry the stored role, and
\* a request with that user's expired access token and valid refresh cookie
\* is renewed in RequireAuth and gets an identity with the stored role.
C22_RenewalTakesStoredRole ==
    /\ (last.op \in {"RefreshToken", "HttpRefresh"} /\ last.err = ErrNone)
        => /\ last.access.role = users[last.id].role
           /\ last.refresh.role = users[last.id].role
    /\ (/\ Served
        /\ extractToken(last.req).err = ErrNone
        /\ ExpiredAccessToken(Presented)
        /\ RefreshToken(users, cfg, now, last.req.refresh_cookie).err = ErrNone
        /\ Presented.role # users[last.req.refresh_cookie.user_id].role)
        => /\ last.ctx.set
           /\ last.ctx.role = users[last.req.refresh_cookie.user_id].role

\* the last request presented a token that validates as an access token
PresentedValid ==
    /\ extractToken(last.req).err = ErrNone
    /\ ParseAccessToken(Presented, cfg, now) = ErrNone

\* stores that differ from the present one in the user of the presented
\* token: its row deleted, its role lowered to guest
OtherStores ==
    {users,
     [i \in DOMAIN users \ {Presented.user_id} |-> users[i]],
     [i \in DOMAIN users |->
        IF i = Presented.user_id THEN [users[i] EXCEPT !.role = RoleGuest]
        ELSE users[i]]}

\* C23: the outcome of the role gates is a function of the role in the
\* identity RequireAuth attached and never of the store: a request with an
\* unexpired access token gets the outcome the token's role gives, the same
\* after the stored role was lowered or the user was deleted.
C23_GatesTrustIdentity ==
    (Served /\ PresentedValid)
    => /\ last.ctx = ExtractUserFromToken(Presented)
       /\ last.op = "Serve"
            => /\ last.handler = Gate(last.group, ExtractUserFromToken(Presented)).next
               /\ \A us \in OtherStores :
                    LET r == Serve(last.group, last.req, us, cfg, now)
                    IN  r.status = last.status /\ r.handler = last.handler
       /\ last.op = "RequireRole"
            => /\ last.handler = (Presented.role = last.role)
               /\ \A us \in OtherStores :
                    LET r == ServeRequireRole(last.role, last.req, us, cfg, now)
                    IN  r.status = last.status /\ r.handler = last.handler

\* C23 happens: the handler of an admin route is invoked for an unexpired
\* token of role admin whose user is no longer an admin in the store
C23_Witness ==
    /\ last.op = "Serve"
    /\ last.group = "admin"
    /\ PresentedValid
    /\ Presented.role = RoleAdmin
    /\ \/ Presented.user_id \notin DOMAIN users
       \/ users[Presented.user_id].role # RoleAdmin
    /\ last.handler

\* the last step returned no token
NoTokenIssued == last.access = NoToken /\ last.refresh = NoToken

\* C24: no token is issued for an inactive or missing account. Login returns
\* UserDeactivated when the record it fetched is inactive, whatever the
\* password; RefreshToken returns UserDeactivated for an inactive and
\* UserNotFound for a missing record; none of them generates a token then.
C24_NoTokenForInactive ==
    /\ (last.op = "Login" /\ last.username # "" /\ last.password # "")
        => LET r == GetByUsername(db, users, last.username)
           IN  /\ (r.err = ErrNone /\ ~r.user.is_active)
                    => (last.err = ErrUserDeactivated /\ NoTokenIssued)
               /\ r.err # ErrNone => (last.err # ErrNone /\ NoTokenIssued)
    /\ (last.op \in {"RefreshToken", "HttpRefresh"}
        /\ ParseRefreshToken(last.tok, cfg, now) = ErrNone)
        => LET r == GetByID(users, last.tok.user_id)
           IN  /\ (r.err = ErrNone /\ ~r.user.is_active)
                    => (last.err = ErrUserDeactivated /\ NoTokenIssued)
               /\ r.err # ErrNone => (last.err = ErrUserNotFound /\ NoTokenIssued)
    /\ (last.op \in {"Login", "RefreshToken", "HttpRefresh"} /\ ~NoTokenIssued)
        => (last.err = ErrNone /\ ActiveUser(last.id))

\* C24 happens: a login to a deactivated account with a wrong password is
\* answered UserDeactivated, without a token
C24_Witness ==
    /\ last.op = "Login"
    /\ last.username = "admin"
    /\ last.password = "wrongpass"
    /\ last.err = ErrUserDeactivated
    /\ 1 \in DOMAIN users
    /\ ~users[1].is_active
    /\ NoTokenIssued

\* the last request presented a token of a user that a deactivation made
\* inactive and that has stayed inactive since
OfDeactivated ==
    /\ extractToken(last.req).err = ErrNone
    /\ Presented.form = "jwt"
    /\ Presented.user_id \in DOMAIN hist.since

\* C25: once a user has been deactivated and stays deactivated, every request
\* with one of that user's tokens is rejected by RequireAuth from the moment
\* one access-token TTL has passed since the deactivation; before that moment
\* a request with an unexpired access token issued earlier is still admitted.
C25_BoundedStaleness ==
    (Served /\ OfDeactivated)
    => /\ now >= hist.since[Presented.user_id] + cfg.AccessExpiry
            => /\ last.status = 401
               /\ last.ctx = NoCtx
               /\ ~last.handler
       /\ ParseAccessToken(Presented, cfg, now) = ErrNone
            => /\ now < hist.since[Presented.user_id] + cfg.AccessExpiry
               /\ last.status # 401
               /\ last.ctx = ExtractUserFromToken(Presented)

\* C25 happens: one TTL after the deactivation the browser of the deactivated
\* user, still holding both cookies, is rejected
C25_Witness ==
    /\ Served
    /\ last.browser
    /\ OfDeactivated
    /\ Presented.typ = TypeAccess
    /\ last.req.refresh_cookie # NoToken
    /\ now = hist.since[Presented.user_id] + cfg.AccessExpiry
    /\ last.status = 401

\* the request of caller p carried a correctly signed access token that was
\* expired when it was parsed, and a refresh cookie that RefreshToken accepts
Renewable(p) ==
    /\ calls[p].pc = "done"
    /\ calls[p].err = "token has invalid claims: token is expired"
    /\ RefreshToken(users, cfg, now, calls[p].req.refresh_cookie).err = ErrNone

\* C26: when two or more requests with the same expired access token and the
\* same valid refresh token pass RequireAuth concurrently, each of them is
\* renewed at most once, none is rejected, and each gets an identity of the
\* same user, in every interleaving.
C26_ConcurrentRenewals ==
    \A p, q \in Callers :
        (/\ p # q
         /\ Renewable(p) /\ Renewable(q)
         /\ calls[p].req = calls[q].req)
        => /\ calls[p].renewals <= 1
           /\ calls[p].status # 401
           /\ calls[p].ctx.set
           /\ calls[p].ctx.user_id = calls[p].req.refresh_cookie.user_id
           /\ calls[p].ctx.user_id = calls[q].ctx.user_id

\* the stored record shows the change of the writer of caller p
Reflects(p) ==
    /\ calls[p].id \in DOMAIN users
    /\ CASE calls[p].op = "DeactivateUser" -> ~users[calls[p].id].is_active
         [] calls[p].op = "ChangePassword" ->
              VerifyPassword(users[calls[p].id], "newpass12")
         [] calls[p].op = "UpdateUser" -> users[calls[p].id].role = RoleManager
         [] OTHER -> TRUE

\* C27: no lost update between the writers of a user record: when two of
\* ChangePassword, UpdateUser and DeactivateUser ran concurrently on the same
\* user and both reported success, the stored record reflects both changes,
\* in every interleaving of their read and write steps.
C27_NoLostUpdate ==
    \A p, q \in Callers :
        (/\ p # q
         /\ calls[p].pc = "done" /\ calls[p].err = ErrNone
         /\ calls[q].pc = "done" /\ calls[q].err = ErrNone
         /\ calls[p].op \in {"DeactivateUser", "ChangePassword", "UpdateUser"}
         /\ calls[q].op \in {"DeactivateUser", "ChangePassword", "UpdateUser"})
        => (Reflects(p) /\ Reflects(q))

\* the ids of the users with role admin
Admins(us) == {i \in DOMAIN us : us[i].role = RoleAdmin}

\* C28: no privilege escalation by a manager: a request to CreateUser,
\* UpdateUser or Register whose attached identity has role manager never makes
\* the set of users with role admin grow.
C28_NoEscalationByManager ==
    (/\ last.op \in {"HttpCreateUser", "HttpUpdateUser", "HttpRegister"}
     /\ last.ctx.role = RoleManager)
    => Admins(users) \subseteq Admins(last.before)

\* C29: every user returned by ListUsersForManager has role user or guest,
\* whatever the table and the request; a requested role other than user or
\* guest yields an empty list with total 0.
C29_ManagerListRoles ==
    last.op = "ListUsersForManager" =>
        /\ \A k \in 1..Len(last.listed.Users) :
              /\ last.listed.Users[k] \in DOMAIN users
              /\ users[last.listed.Users[k]].role \in {RoleUser, RoleGuest}
        /\ last.list.Role \notin {"", RoleUser, RoleGuest} =>
              (last.listed.Users = <<>> /\ last.listed.Total = 0)

\* a list without role filter that shows a user and leaves an admin and a
\* manager of the table out
C29_Witness ==
    /\ last.op = "ListUsersForManager"
    /\ last.list.Role = ""
    /\ Len(last.listed.Users) > 0
    /\ \E i \in DOMAIN users : users[i].role = RoleAdmin
    /\ \E i \in DOMAIN users : users[i].role = RoleManager

\* the user ChangePassword was called for existed and the current password
\* of the call verified
ChangeVerified ==
    /\ last.id \in DOMAIN last.before
    /\ VerifyPassword(last.before[last.id], last.password)

\* the refusals of ChangePassword leave the table as it was, and the tokens
\* the client holds are validated as they were before the call
ChangeKeeps ==
    /\ last.err \in {ErrUserNotFound, ErrInvalidCredentials, ErrPasswordTooShort}
         => users = last.before
    /\ \A tok \in HeldAccess :
          ValidateToken(users, cfg, now, tok).err
             = ValidateToken(last.before, cfg, now, tok).err

\* Login of the user whose password was changed, with password pw
LoginAfterChange(pw) ==
    Login(db, users, cfg, now, users[last.id].username, pw).err

\* C30 as stated: ChangePassword returns UserNotFound, else InvalidCredentials,
\* else PasswordTooShort for a new password shorter than 8 characters, the
\* record unchanged; after a success Login with the new password succeeds and
\* Login with the old one returns InvalidCredentials, earlier tokens staying
\* valid.
C30_ChangePasswordByCharacters ==
    last.op = "ChangePassword"
    => /\ last.id \notin DOMAIN last.before => last.err = ErrUserNotFound
       /\ (last.id \in DOMAIN last.before /\ ~ChangeVerified)
            => last.err = ErrInvalidCredentials
       /\ (ChangeVerified /\ RuneCount(last.text.password) < MinPasswordLen)
            => last.err = ErrPasswordTooShort
       /\ (ChangeVerified /\ RuneCount(last.text.password) >= MinPasswordLen)
            => /\ last.err = ErrNone
               /\ LoginAfterChange(Utf8(last.text.password)) = ErrNone
               /\ LoginAfterChange(last.password) = ErrInvalidCredentials
       /\ ChangeKeeps

\* C30, amended: the new password is measured in bytes; the logins after a
\* success are those of an account that is active, and the old password is
\* refused when the new one differs from it.
C30_ChangePasswordByBytes ==
    last.op = "ChangePassword"
    => /\ last.id \notin DOMAIN last.before => last.err = ErrUserNotFound
       /\ (last.id \in DOMAIN last.before /\ ~ChangeVerified)
            => last.err = ErrInvalidCredentials
       /\ (ChangeVerified /\ Len(Utf8(last.text.password)) < MinPasswordLen)
            => last.err = ErrPasswordTooShort
       /\ (ChangeVerified /\ Len(Utf8(last.text.password)) >= MinPasswordLen)
            => /\ last.err = ErrNone
               /\ users[last.id].is_active
                    => LoginAfterChange(Utf8(last.text.password)) = ErrNone
               /\ (users[last.id].is_active
                   /\ Utf8(last.text.password) # last.password)
                    => LoginAfterChange(last.password) = ErrInvalidCredentials
               /\ ~users[last.id].is_active
                    => LoginAfterChange(Utf8(last.text.password)) = ErrUserDeactivated
       /\ ChangeKeeps

\* a password of four characters in eight bytes was accepted while the client
\* holds a token of an earlier login
C30_Witness ==
    /\ last.op = "ChangePassword"
    /\ last.err = ErrNone
    /\ RuneCount(last.text.password) < MinPasswordLen
    /\ HeldAccess # {}
    /\ last.id \in DOMAIN users
    /\ users[last.id].is_active

====
